---- MODULE Spec2Model ----
(***************************************************************************)
(* A model of the lex-helper dialog layer: the request parser, the dialog  *)
(* primitives, the intent dispatcher and the per-turn Orchestrator.        *)
(*                                                                         *)
(* Python strings are sequences of one-character strings, so that lower(), *)
(* upper(), replace() and concatenation are computed and not assumed.      *)
(* Optional values are sequences of length 0 (None) or 1 (a value).        *)
(***************************************************************************)
EXTENDS Integers, Sequences, FiniteSets, TLC

VARIABLES
    dispatch_intent,       \* dispatcher naming: the intent name handed to the dispatcher
    dispatch_package,      \* dispatcher naming: the configured handler namespace root
    file_to_import,    \* dispatcher naming: Option of the module path computed
    event,             \* dialog primitives: Option of the inbound event that was parsed
    lex_request,       \* dialog primitives: the request the primitives mutate
    response,          \* dialog primitives: Option of the last response returned
    last_call,         \* dialog primitives: what the last call was and how it ended
    config,            \* orchestrator: the Config of the LexHelper
    modules,           \* orchestrator: the handler modules that can be imported
    session,           \* orchestrator: the session attributes the platform holds
    outcome,           \* orchestrator: Option of how the last invocation ended
    turn,              \* orchestrator: the number of invocations so far
    engine_call,       \* disambiguation engine: Option of the call (operation, arguments)
    engine_result      \* disambiguation engine: Option of what the call gave

nameVars   == <<dispatch_intent, dispatch_package, file_to_import>>
dialogVars == <<event, lex_request, response, last_call>>
orchVars   == <<config, modules, session, outcome, turn>>
engineVars == <<engine_call, engine_result>>
vars       == <<nameVars, dialogVars, orchVars, engineVars>>

None    == <<>>
Some(x) == <<x>>

----------------------------------------------------------------------------
(* Strings *)

UpperChars == <<"A","B","C","D","E","F","G","H","I","J","K","L","M",
                "N","O","P","Q","R","S","T","U","V","W","X","Y","Z">>
LowerChars == <<"a","b","c","d","e","f","g","h","i","j","k","l","m",
                "n","o","p","q","r","s","t","u","v","w","x","y","z">>

IsUpperChar(c) == \E i \in DOMAIN UpperChars : UpperChars[i] = c
IsLowerChar(c) == \E i \in DOMAIN LowerChars : LowerChars[i] = c

char_lower(c) ==
    IF IsUpperChar(c)
    THEN LowerChars[CHOOSE i \in DOMAIN UpperChars : UpperChars[i] = c]
    ELSE c

char_upper(c) ==
    IF IsLowerChar(c)
    THEN UpperChars[CHOOSE i \in DOMAIN LowerChars : LowerChars[i] = c]
    ELSE c

\* str.lower() and str.upper()
str_lower(s) == [i \in 1..Len(s) |-> char_lower(s[i])]
str_upper(s) == [i \in 1..Len(s) |-> char_upper(s[i])]

\* "c in s" for a one-character c
str_contains(s, c) == \E i \in 1..Len(s) : s[i] = c

\* s.replace(c, "") for a one-character c
str_remove(s, c) == SelectSeq(s, LAMBDA x : x # c)

\* the number of occurrences of the character c in s
str_count(s, c) == Cardinality({i \in 1..Len(s) : s[i] = c})

\* all strings over the alphabet A of length at most n
StringsUpTo(A, n) == UNION {[1..k -> A] : k \in 0..n}

----------------------------------------------------------------------------
(* Dispatcher naming convention *)

\* lex_helper.utils.string.title_to_snake: an underscore before every capital
\* that is not the first character, then lower-cased.
title_to_snake(s) ==
    LET piece(i) == IF i > 1 /\ IsUpperChar(s[i])
                    THEN <<"_", char_lower(s[i])>>
                    ELSE <<char_lower(s[i])>>
        RECURSIVE join(_)
        join(i) == IF i > Len(s) THEN <<>> ELSE piece(i) \o join(i + 1)
    IN  join(1)

DefaultPackage == <<"f","u","l","f","i","l","l","m","e","n","t","_",
                    "f","u","n","c","t","i","o","n">>
DotIntentsDot  == <<".","i","n","t","e","n","t","s",".">>

\* a dispatcher that converts every name, underscored or not
handler_module_resplit(name) == title_to_snake(name)

\* call_handler_for_file: the handler identity an intent name maps to
handler_module(name) ==
    IF str_contains(name, "_") THEN str_lower(name) ELSE title_to_snake(name)

\* call_handler_for_file: the module path that is imported
module_path(name, package) ==
    (IF package = None THEN DefaultPackage ELSE package[1])
        \o DotIntentsDot \o handler_module(name)

----------------------------------------------------------------------------
(* Python values held by slots: None, a string, or a non-string (a number) *)

PyNone   == [t |-> "None", v |-> <<>>]
PyStr(s) == [t |-> "str", v |-> s]
PyNum(d) == [t |-> "num", v |-> d]    \* d: the digits, as a string

\* Python truthiness of a value
truthy(x) ==
    \/ x.t = "str" /\ x.v # <<>>
    \/ x.t = "num" /\ x.v # <<"0">>

\* isinstance(x, str)
is_str(x) == x.t = "str"

\* A slot is a dict {"value": {...}}; intent.slots maps a slot name to None or
\* to a slot.  "value" is None or the dict of interpreted/original/resolved.
SlotDict(iv, ov, rv) ==
    [value |-> Some([interpretedValue |-> iv, originalValue |-> ov,
                     resolvedValues |-> rv])]

\* dict.get(key): None when the key is missing
dict_get(d, k) == IF k \in DOMAIN d THEN d[k] ELSE None

\* d[k] = v
dict_put(d, k, v) == [x \in (DOMAIN d) \cup {k} |-> IF x = k THEN v ELSE d[x]]

\* get_slot_value: preference, then interpretedValue if truthy, else originalValue
get_slot_value(slot, preference) ==
    IF slot.value = None THEN PyNone
    ELSE LET interpreted_value == slot.value[1].interpretedValue
             original_value    == slot.value[1].originalValue
         IN  IF preference = "interpretedValue" THEN interpreted_value
             ELSE IF preference = "originalValue" THEN original_value
             ELSE IF truthy(interpreted_value) THEN interpreted_value
             ELSE original_value

\* get_slot: a missing or unfilled slot reads as None
get_slot(slot_name, intent, preference) ==
    LET slot == dict_get(intent.slots, slot_name)
    IN  IF slot = None THEN PyNone ELSE get_slot_value(slot[1], preference)

\* a set_slot that rebuilds the slots dict from the one slot it sets
set_slot_clobber(slot_name, slot_value, intent) ==
    [intent EXCEPT !.slots =
        [x \in {slot_name} |-> Some(SlotDict(slot_value, slot_value, <<slot_value>>))]]

\* set_slot: interpreted, original and resolved values all become slot_value
set_slot(slot_name, slot_value, intent) ==
    [intent EXCEPT !.slots =
        dict_put(intent.slots, slot_name,
                 Some(SlotDict(slot_value, slot_value, <<slot_value>>)))]

----------------------------------------------------------------------------
(* Contexts *)

\* A context: its name and its timeToLive dict (None when the key is missing
\* or empty); turnsToLive is None when that key is missing.
Context(n, ttl) == [name |-> n, timeToLive |-> ttl]
TimeToLive(turns) == Some([timeToLiveInSeconds |-> 900, turnsToLive |-> turns])

\* a pruning that keeps every context that has a timeToLive
remove_inactive_context_keep(request) ==
    SelectSeq(request.sessionState.activeContexts,
              LAMBDA context : context.timeToLive # None)

\* remove_inactive_context: keeps the contexts that have a timeToLive whose
\* turnsToLive is not 0 (an empty list is returned as it is)
remove_inactive_context(request) ==
    SelectSeq(request.sessionState.activeContexts,
              LAMBDA context :
                  /\ context.timeToLive # None
                  /\ context.timeToLive[1].turnsToLive # Some(0))

----------------------------------------------------------------------------
(* Messages, session attributes, requests and responses *)

PlainText(c) == [contentType |-> "PlainText", content |-> c, buttons |-> <<>>]
ImageCard(c, b) == [contentType |-> "ImageResponseCard", content |-> c, buttons |-> b]

\* json.dumps of a value: the serialized text, kept as the value it encodes
json_dumps(x) == [json |-> x]

\* get_provided_options: the button texts of the image cards, serialized
get_provided_options(messages) ==
    LET RECURSIVE texts(_)
        texts(i) ==
            IF i > Len(messages) THEN <<>>
            ELSE (IF messages[i].contentType = "ImageResponseCard"
                  THEN messages[i].buttons ELSE <<>>) \o texts(i + 1)
    IN  json_dumps(texts(1))

\* SessionAttributes: the class defaults of the framework-reserved fields
SessionAttributesDefaults ==
    [ callback_event              |-> None,
      callback_handler            |-> None,
      error_count                 |-> 0,
      previous_dialog_action_type |-> "",
      previous_slot_to_elicit     |-> <<>>,
      options_provided            |-> None,
      previous_message            |-> None,
      lex_intent                  |-> None,
      previous_intent             |-> None,
      channel                     |-> <<"l","e","x">>,
      disambiguation_active       |-> FALSE,
      disambiguation_candidates   |-> None ]

DialogAction(type, slot) == [type |-> type, slotToElicit |-> slot]

SessionState(contexts, attrs, intent, action) ==
    [ activeContexts    |-> contexts,
      sessionAttributes |-> attrs,
      intent            |-> intent,
      dialogAction      |-> action ]

LexResponse(state, messages, requestAttributes) ==
    [ sessionState      |-> state,
      messages          |-> messages,
      requestAttributes |-> requestAttributes ]

EmptyDict == [x \in {} |-> None]

\* What a call gives back: a response and the request as the call left it
\* (the primitives mutate the request in place), or an exception.
Return(resp, request) ==
    [kind |-> "return", response |-> Some(resp), exc |-> "", request |-> request]
Raise(exc, request) ==
    [kind |-> "raise", response |-> None, exc |-> exc, request |-> request]

\* a local name bound to the value of x: x is computed once, then F of it
Bind(x, F(_)) == CHOOSE y \in {F(v) : v \in {x}} : TRUE

----------------------------------------------------------------------------
(* Request parser *)

\* parse_req_sess_attrs: every request attribute is set on the session
\* attributes, "true"/"True"/"false"/"False" as booleans
parse_req_sess_attrs(request) ==
    IF request.requestAttributes = None \/ DOMAIN request.requestAttributes[1] = {}
    THEN request
    ELSE LET ra == request.requestAttributes[1]
             sa == request.sessionState.sessionAttributes
         IN  [request EXCEPT !.sessionState.sessionAttributes =
                 [k \in DOMAIN sa |-> IF k \in DOMAIN ra THEN ra[k] ELSE sa[k]]]

\* parse_lex_request: session attributes from the event over the class
\* defaults, or the caller's instance when the event has none; contexts
\* pruned; request attributes copied.
parse_lex_request(data, sessionAttributes) ==
    LET event_attrs == data.sessionState.sessionAttributes
        model_attrs ==
            IF DOMAIN event_attrs # {}
            THEN [k \in DOMAIN SessionAttributesDefaults |->
                     IF k \in DOMAIN event_attrs THEN event_attrs[k]
                     ELSE SessionAttributesDefaults[k]]
            ELSE sessionAttributes
        request ==
            [ sessionState      |-> SessionState(data.sessionState.activeContexts,
                                                 model_attrs,
                                                 data.sessionState.intent, None),
              inputTranscript   |-> data.inputTranscript,
              interpretations   |-> data.interpretations,
              invocationLabel   |-> None,
              requestAttributes |-> data.requestAttributes,
              invoked           |-> <<>>,
              missed            |-> <<>> ]
    IN  parse_req_sess_attrs(
            [request EXCEPT !.sessionState.activeContexts =
                                remove_inactive_context(request)])

----------------------------------------------------------------------------
(* Dialog primitives.  Each takes the request and gives Return(response,   *)
(* request as mutated) or Raise(exception, request as mutated).            *)

SlotSuffix == <<"S","l","o","t">>

\* a close that answers with the dialog action of elicit_intent
close_elicits(request, messages) ==
    LET attrs == [request.sessionState.sessionAttributes
                     EXCEPT !.previous_dialog_action_type = "Close"]
        intent == [request.sessionState.intent EXCEPT !.state = "Fulfilled"]
    IN  Return(LexResponse(SessionState(request.sessionState.activeContexts, attrs,
                                        intent, Some(DialogAction("ElicitIntent", None))),
                           messages, EmptyDict),
               [request EXCEPT !.sessionState.sessionAttributes = attrs,
                               !.sessionState.intent = intent])

\* close: the request's contexts are pruned, the response carries the list
\* read before the pruning
close(request, messages) ==
    LET active_contexts == request.sessionState.activeContexts
        attrs == [request.sessionState.sessionAttributes
                     EXCEPT !.previous_dialog_action_type = "Close"]
        intent == [request.sessionState.intent EXCEPT !.state = "Fulfilled"]
    IN  Return(LexResponse(SessionState(active_contexts, attrs, intent,
                                        Some(DialogAction("Close", None))),
                           messages, EmptyDict),
               [request EXCEPT !.sessionState.activeContexts =
                                   remove_inactive_context(request),
                               !.sessionState.sessionAttributes = attrs,
                               !.sessionState.intent = intent])

\* an elicit_intent that ends the conversation
elicit_intent_closing(messages, request) ==
    LET active_contexts == remove_inactive_context(request)
        attrs == [request.sessionState.sessionAttributes
                     EXCEPT !.previous_dialog_action_type = "Close",
                            !.previous_slot_to_elicit = <<>>,
                            !.options_provided = Some(get_provided_options(messages))]
        intent == [request.sessionState.intent EXCEPT !.state = "Fulfilled"]
    IN  Return(LexResponse(SessionState(active_contexts, attrs, intent,
                                        Some(DialogAction("Close", None))),
                           messages, EmptyDict),
               [request EXCEPT !.sessionState.sessionAttributes = attrs,
                               !.sessionState.intent = intent])

\* elicit_intent
elicit_intent(messages, request) ==
    LET active_contexts == remove_inactive_context(request)
        attrs == [request.sessionState.sessionAttributes
                     EXCEPT !.previous_dialog_action_type = "ElicitIntent",
                            !.previous_slot_to_elicit = <<>>,
                            !.options_provided = Some(get_provided_options(messages))]
        intent == [request.sessionState.intent EXCEPT !.state = "Fulfilled"]
    IN  Return(LexResponse(SessionState(active_contexts, attrs, intent,
                                        Some(DialogAction("ElicitIntent", None))),
                           messages, EmptyDict),
               [request EXCEPT !.sessionState.sessionAttributes = attrs,
                               !.sessionState.intent = intent])

\* elicit_slot: the session attributes are stamped before the slot name is
\* checked for a '.'
elicit_slot(slot_to_elicit, messages, request) ==
    LET active_contexts == remove_inactive_context(request)
        intent == [request.sessionState.intent EXCEPT !.state = "InProgress"]
        slot_name == slot_to_elicit
        attrs == [request.sessionState.sessionAttributes
                     EXCEPT !.options_provided = Some(get_provided_options(messages)),
                            !.previous_intent = Some(intent.name),
                            !.previous_message = Some(json_dumps(messages)),
                            !.previous_dialog_action_type = "ElicitSlot",
                            !.previous_slot_to_elicit =
                                (str_remove(intent.name, "_") \o SlotSuffix)
                                    \o <<".">> \o str_upper(slot_name)]
        mutated == [request EXCEPT !.sessionState.sessionAttributes = attrs,
                                   !.sessionState.intent = intent]
    IN  IF str_contains(slot_name, ".")
        THEN Raise("Exception", mutated)
        ELSE Return(LexResponse(SessionState(active_contexts, attrs, intent,
                                    Some(DialogAction("ElicitSlot", Some(slot_name)))),
                                messages, EmptyDict),
                    mutated)

\* a delegate that leaves previous_dialog_action_type as it found it
delegate_unstamped(request) ==
    LET updated_active_contexts == remove_inactive_context(request)
        attrs == request.sessionState.sessionAttributes
        intent == [request.sessionState.intent EXCEPT !.state = "ReadyForFulfillment"]
    IN  Return(LexResponse(SessionState(updated_active_contexts, attrs, intent,
                                        Some(DialogAction("Delegate", None))),
                           <<>>, EmptyDict),
               [request EXCEPT !.sessionState.intent = intent])

\* delegate
delegate(request) ==
    LET updated_active_contexts == remove_inactive_context(request)
        attrs == [request.sessionState.sessionAttributes
                     EXCEPT !.previous_dialog_action_type = "Delegate"]
        intent == [request.sessionState.intent EXCEPT !.state = "ReadyForFulfillment"]
    IN  Return(LexResponse(SessionState(updated_active_contexts, attrs, intent,
                                        Some(DialogAction("Delegate", None))),
                           <<>>, EmptyDict),
               [request EXCEPT !.sessionState.sessionAttributes = attrs,
                               !.sessionState.intent = intent])

----------------------------------------------------------------------------
(* Transitions and the dispatcher.  A bot is its handler modules: a map    *)
(* from the path of each module that can be imported to what its handler   *)
(* does (a script).  A module with no handler function has the script      *)
(* "no_handler".  The request carries the list of the handlers invoked in  *)
(* the turn (invoked) and of the modules that were not found (missed),     *)
(* which the code does not hold: they are kept to state which handlers     *)
(* ran, in which order, and which dispatches found no module.              *)

Script(do, target, slot, messages) ==
    [do |-> do, target |-> target, slot |-> slot, messages |-> messages]

dict_pop(d, k) == [x \in (DOMAIN d) \ {k} |-> d[x]]

\* "sub in s"
str_has(s, sub) ==
    \E i \in 0..(Len(s) - Len(sub)) : SubSeq(s, i + 1, i + Len(sub)) = sub

ErrorMessage(exc) ==
    CASE exc = "IntentNotFoundError" -> "error_intent_not_found"
      [] exc = "ValueError"          -> "error_invalid_value"
      [] OTHER                       -> "error_generic"

\* an exception: its type and the message it was raised with
Error(type, message) == [type |-> type, message |-> message]

\* an error policy that shows the message of whatever error it is given
ErrorText_echoing(error) ==
    IF error.message # "" THEN error.message ELSE ErrorMessage(error.type)

\* the message shown for an error: a ValidationError's own message when it
\* has one, a fixed message for a SessionError, else the message of the type
ErrorText(error) ==
    CASE error.type = "ValidationError" ->
            IF error.message # "" THEN error.message ELSE "error_invalid_input"
      [] error.type = "SessionError" -> "error_session"
      [] OTHER -> ErrorMessage(error.type)

\* lex_helper.exceptions.handlers.handle_exceptions: a Close response with
\* the one message of the error, on the request's intent and attributes
handle_exceptions_of(error, request) ==
    Return(LexResponse(SessionState(request.sessionState.activeContexts,
                                    request.sessionState.sessionAttributes,
                                    request.sessionState.intent,
                                    Some(DialogAction("Close", None))),
                       <<PlainText(ErrorText(error))>>, EmptyDict),
           request)

\* handle_exceptions for an exception raised without a message
handle_exceptions(exc, request) == handle_exceptions_of(Error(exc, ""), request)

\* _clear_slots: the slots are emptied and the intent renamed
clear_slots(intent_name, request) ==
    [request EXCEPT !.sessionState.intent.slots = EmptyDict,
                    !.sessionState.intent.name = intent_name]

\* a transition_to_callback that records no callback
transition_to_callback_unrecorded(intent_name, request, messages) ==
    LET cleared == clear_slots(intent_name, request)
    IN  Return(LexResponse(cleared.sessionState, messages, EmptyDict), cleared)

\* transition_to_callback (clear_slots = True): the target is stashed under
\* requestAttributes["callback"]; no handler is called
transition_to_callback(intent_name, request, messages) ==
    LET cleared == clear_slots(intent_name, request)
        attributes == dict_put(IF cleared.requestAttributes = None
                               THEN EmptyDict ELSE cleared.requestAttributes[1],
                               "callback", intent_name)
        stashed == [cleared EXCEPT !.requestAttributes = Some(attributes)]
    IN  Return(LexResponse(stashed.sessionState, messages, attributes), stashed)

RecursionLimit == 3

RECURSIVE call_handler_for_file(_, _, _, _, _)

\* transition_to_intent (clear_slots = True): dispatches under the default
\* package and prepends the caller's messages
transition_to_intent(intent_name, request, messages, bot, depth) ==
    Bind(call_handler_for_file(intent_name, clear_slots(intent_name, request),
                               None, bot, depth),
         LAMBDA result :
            IF result.kind = "raise" \/ messages = <<>> THEN result
            ELSE IF result.response = None
            THEN Raise("AttributeError", result.request)
            ELSE [result EXCEPT !.response =
                     Some([result.response[1] EXCEPT !.messages = messages \o @])])

\* the handler function of a module, called with the request
run_handler(script, request, bot, depth) ==
    CASE script.do = "close"         -> close(request, script.messages)
      [] script.do = "delegate"      -> delegate(request)
      [] script.do = "elicit_intent" -> elicit_intent(script.messages, request)
      [] script.do = "elicit_slot"   -> elicit_slot(script.slot, script.messages, request)
      [] script.do = "raise"         -> Raise("RuntimeError", request)
      [] script.do = "return_none"   ->
            [kind |-> "return", response |-> None, exc |-> "", request |-> request]
      [] script.do = "transition_to_callback" ->
            transition_to_callback(script.target, request, script.messages)
      [] script.do = "transition_to_intent" ->
            transition_to_intent(script.target, request, script.messages, bot, depth + 1)

\* a dispatcher whose import guard also encloses the call of the handler:
\* whatever the handler raises leaves as IntentNotFoundError
call_handler_for_file_raising(intent_name, request, package, bot, depth) ==
    LET file == module_path(intent_name, package)
        missing == [request EXCEPT !.missed =
                       Append(@, [handler |-> file, depth |-> depth])]
    IN  IF file \notin DOMAIN bot THEN Raise("IntentNotFoundError", missing)
        ELSE IF bot[file].do = "no_handler" THEN Raise("ValueError", request)
        ELSE LET called == [request EXCEPT !.invoked =
                               Append(@, [handler |-> file, depth |-> depth])]
             IN  Bind(IF depth > RecursionLimit
                      THEN Raise("RecursionError", called)
                      ELSE run_handler(bot[file], called, bot, depth),
                      LAMBDA result :
                         IF result.kind = "raise"
                         THEN Raise("IntentNotFoundError", result.request)
                         ELSE result)

\* a dispatcher that turns a missing module into the error response
call_handler_for_file_swallowing(intent_name, request, package, bot, depth) ==
    LET file == module_path(intent_name, package)
        missing == [request EXCEPT !.missed =
                       Append(@, [handler |-> file, depth |-> depth])]
    IN  IF file \notin DOMAIN bot THEN handle_exceptions("IntentNotFoundError", missing)
        ELSE IF bot[file].do = "no_handler" THEN Raise("ValueError", request)
        ELSE LET called == [request EXCEPT !.invoked =
                               Append(@, [handler |-> file, depth |-> depth])]
             IN  Bind(IF depth > RecursionLimit
                      THEN Raise("RecursionError", called)
                      ELSE run_handler(bot[file], called, bot, depth),
                      LAMBDA result :
                         IF result.kind = "raise"
                         THEN handle_exceptions(result.exc, result.request)
                         ELSE result)

\* call_handler_for_file: a module that cannot be imported raises
\* IntentNotFoundError, a module without a handler function raises
\* ValueError; whatever the handler raises becomes the error response.
call_handler_for_file(intent_name, request, package, bot, depth) ==
    LET file == module_path(intent_name, package)
        missing == [request EXCEPT !.missed =
                       Append(@, [handler |-> file, depth |-> depth])]
    IN  IF file \notin DOMAIN bot THEN Raise("IntentNotFoundError", missing)
        ELSE IF bot[file].do = "no_handler" THEN Raise("ValueError", request)
        ELSE LET called == [request EXCEPT !.invoked =
                               Append(@, [handler |-> file, depth |-> depth])]
             IN  Bind(IF depth > RecursionLimit
                      THEN Raise("RecursionError", called)
                      ELSE run_handler(bot[file], called, bot, depth),
                      LAMBDA result :
                         IF result.kind = "raise"
                         THEN handle_exceptions(result.exc, result.request)
                         ELSE result)

FallbackHandlerName ==
    <<"c","o","m","m","o","n","_","g","r","e","e","t","i","n","g","_","a","u","t","h">>

\* LexRequest(**json.loads(callback_event)) with the session attributes of
\* the current request: the stashed event as a request, its contexts and
\* intent as they were stashed
stashed_request(callback_event, request) ==
    LET data == callback_event.json
    IN  [ sessionState      |-> SessionState(data.sessionState.activeContexts,
                                             request.sessionState.sessionAttributes,
                                             data.sessionState.intent, None),
          inputTranscript   |-> data.inputTranscript,
          interpretations   |-> data.interpretations,
          invocationLabel   |-> None,
          requestAttributes |-> data.requestAttributes,
          invoked           |-> request.invoked,
          missed            |-> request.missed ]

\* callback_original_intent_handler: the request it gives back is the one it
\* dispatched (the stashed one when there is a callback_event)
callback_original_intent_handler(request, bot, depth) ==
    LET attrs == request.sessionState.sessionAttributes
        callback_event == attrs.callback_event
        callback_handler == IF attrs.callback_handler = None THEN <<>>
                            ELSE attrs.callback_handler[1]
    IN  IF callback_event = None /\ callback_handler = <<>>
        THEN call_handler_for_file(FallbackHandlerName, request, None, bot, depth)
        ELSE IF callback_event # None
        THEN call_handler_for_file(
                 callback_handler,
                 stashed_request(
                     callback_event[1],
                     [request EXCEPT !.sessionState.sessionAttributes =
                         dict_pop(dict_pop(attrs, "callback_event"), "callback_handler")]),
                 None, bot, depth)
        ELSE call_handler_for_file(
                 callback_handler,
                 [request EXCEPT !.sessionState.intent.slots = EmptyDict,
                                 !.sessionState.intent.name = callback_handler],
                 None, bot, depth)

----------------------------------------------------------------------------
(* Unknown slot choices *)

\* an any_unknown_slot_choices that leaves error_count alone
any_unknown_slot_choices_counting(request) ==
    LET attrs  == request.sessionState.sessionAttributes
        choice == get_slot(attrs.previous_slot_to_elicit, request.sessionState.intent, "")
    IN  [unknown |-> attrs.previous_dialog_action_type = "ElicitSlot"
                        /\ truthy(choice) /\ ~is_str(choice),
         request |-> request]

\* any_unknown_slot_choices: the answer and the request with error_count reset
any_unknown_slot_choices(request) ==
    LET attrs  == request.sessionState.sessionAttributes
        choice == get_slot(attrs.previous_slot_to_elicit, request.sessionState.intent, "")
        reset  == [request EXCEPT !.sessionState.sessionAttributes.error_count = 0]
    IN  IF attrs.previous_dialog_action_type = "ElicitSlot"
        THEN IF ~truthy(choice) \/ is_str(choice)
             THEN [unknown |-> FALSE, request |-> reset]
             ELSE [unknown |-> TRUE, request |-> request]
        ELSE [unknown |-> FALSE, request |-> reset]

\* unknown_choice_handler
unknown_choice_handler(request, choice) == delegate(request)

\* handle_any_unknown_slot_choice: both branches delegate
handle_any_unknown_slot_choice(request) ==
    LET choice == get_slot(request.sessionState.sessionAttributes.previous_slot_to_elicit,
                           request.sessionState.intent, "interpretedValue")
    IN  IF ~is_str(choice) THEN unknown_choice_handler(request, choice)
        ELSE delegate(request)

\* reprompt_slot: the stored previous_slot_to_elicit is handed to elicit_slot
\* as the slot name, with no messages; without a stored slot it delegates
reprompt_slot(request) ==
    LET previous_slot_to_elicit ==
            request.sessionState.sessionAttributes.previous_slot_to_elicit
    IN  IF previous_slot_to_elicit = <<>>
        THEN delegate(request)
        ELSE elicit_slot(previous_slot_to_elicit, <<>>, request)

----------------------------------------------------------------------------
(* Disambiguation engine.  Confidence scores are in hundredths.            *)

ConfidenceThreshold == 60
SimilarityThresholdTight == 15 - 5
SimilarityThreshold == 15
MaxCandidatesWide   == 3 + 1
MaxCandidates       == 3
MinCandidates       == 2

\* extract_intent_scores: (intent name, nluConfidence or 0) per interpretation
extract_intent_scores(request) ==
    [i \in 1..Len(request.interpretations) |->
        [name  |-> request.interpretations[i].intent.name,
         score |-> IF request.interpretations[i].nluConfidence = None THEN 0
                   ELSE request.interpretations[i].nluConfidence[1],
         slots |-> request.interpretations[i].intent.slots]]

\* the entries by descending score, entries of equal score in their order
RECURSIVE sort_by_score(_)
sort_by_score(scores) ==
    IF scores = <<>> THEN <<>>
    ELSE LET top == CHOOSE i \in 1..Len(scores) :
                        /\ \A j \in 1..Len(scores) : scores[j].score <= scores[i].score
                        /\ \A j \in 1..(i - 1) : scores[j].score < scores[i].score
             rest == [j \in 1..(Len(scores) - 1) |->
                         IF j < top THEN scores[j] ELSE scores[j + 1]]
         IN  <<scores[top]>> \o sort_by_score(rest)

\* should_disambiguate
should_disambiguate(scores) ==
    LET sorted == sort_by_score(scores)
    IN  IF Len(sorted) < MinCandidates THEN FALSE
        ELSE \/ sorted[1].score < ConfidenceThreshold
             \/ sorted[1].score - sorted[2].score <= SimilarityThreshold

\* the display name of an intent: its words, capitalized, separated by blanks
display_name(name) ==
    LET piece(i) ==
            IF name[i] = "_" THEN <<" ">>
            ELSE IF i = 1 \/ name[i - 1] = "_" THEN <<char_upper(name[i])>>
            ELSE IF IsUpperChar(name[i]) THEN <<" ", name[i]>>
            ELSE <<name[i]>>
        RECURSIVE join(_)
        join(i) == IF i > Len(name) THEN <<>> ELSE piece(i) \o join(i + 1)
    IN  join(1)

IntentCandidate(entry) ==
    [intent_name      |-> entry.name,
     confidence_score |-> entry.score,
     display_name     |-> display_name(entry.name),
     description      |-> <<>>,
     required_slots   |-> DOMAIN entry.slots]

\* the stored form of the candidates: a JSON list with one object per
\* candidate, an object being its key/value pairs in the order of the fields
dumps_candidates(candidates) ==
    [i \in 1..Len(candidates) |->
        << <<"intent_name", candidates[i].intent_name>>,
           <<"confidence_score", candidates[i].confidence_score>>,
           <<"display_name", candidates[i].display_name>>,
           <<"description", candidates[i].description>>,
           <<"required_slots", candidates[i].required_slots>> >>]

\* the candidates read back from their stored form
loads_candidates(stored) ==
    LET value(object, key) ==
            object[CHOOSE k \in 1..Len(object) : object[k][1] = key][2]
    IN  [i \in 1..Len(stored) |->
            [intent_name      |-> value(stored[i], "intent_name"),
             confidence_score |-> value(stored[i], "confidence_score"),
             display_name     |-> value(stored[i], "display_name"),
             description      |-> value(stored[i], "description"),
             required_slots   |-> value(stored[i], "required_slots")]]

\* analyze_request
analyze_request(request) ==
    LET scores == extract_intent_scores(request)
        sorted == sort_by_score(scores)
        should == should_disambiguate(scores)
        kept   == SubSeq(sorted, 1, IF Len(sorted) < MaxCandidates
                                    THEN Len(sorted) ELSE MaxCandidates)
    IN  [should_disambiguate |-> should,
         candidates |-> IF should THEN [i \in 1..Len(kept) |-> IntentCandidate(kept[i])]
                        ELSE <<>>,
         confidence_scores |-> scores]

\* the state carried to the next turn
clear_disambiguation_state(request) ==
    [request EXCEPT !.sessionState.sessionAttributes.disambiguation_active = FALSE,
                    !.sessionState.sessionAttributes.disambiguation_candidates = None]

\* handle_disambiguation: the candidates are stored and the intent elicited
handle_disambiguation(request, candidates) ==
    LET kept == SubSeq(candidates, 1, IF Len(candidates) < MaxCandidates
                                      THEN Len(candidates) ELSE MaxCandidates)
        text == IF Len(kept) = 2 THEN "disambiguation.two_options"
                ELSE "disambiguation.multiple_options"
        stored == [request EXCEPT
                      !.sessionState.sessionAttributes.disambiguation_active = TRUE,
                      !.sessionState.sessionAttributes.disambiguation_candidates =
                          Some(dumps_candidates(kept))]
    IN  elicit_intent(<<PlainText(text)>>, stored)

Digits == <<"1","2","3","4","5","6","7","8","9">>

\* the selection rules taken in the order exact name, part of a display
\* name, number, letter
resolve_user_selection_part_first(input, candidates) ==
    LET n       == Len(candidates)
        lowered == str_lower(input)
        exact   == {i \in 1..n : \/ str_lower(candidates[i].intent_name) = lowered
                                 \/ str_lower(candidates[i].display_name) = lowered}
        partial == {i \in 1..n : /\ lowered # <<>>
                                 /\ str_has(str_lower(candidates[i].display_name), lowered)}
        number  == {i \in 1..n : /\ i \in DOMAIN Digits
                                 /\ input = <<Digits[i]>>}
        letter  == {i \in 1..n : lowered = <<LowerChars[i]>>}
        first(S) == CHOOSE i \in S : \A j \in S : i <= j
    IN  IF exact # {} THEN first(exact)
        ELSE IF partial # {} THEN first(partial)
        ELSE IF number # {} THEN first(number)
        ELSE IF letter # {} THEN first(letter)
        ELSE 0

\* the candidate the input selects (0 when none): exact name or display
\* name, then part of a display name, then a number, then a letter; a single
\* letter that names a candidate's position is not taken as part of a
\* display name ("b" among "Book a Flight", "Change Flight" is the second)
resolve_user_selection(input, candidates) ==
    LET n       == Len(candidates)
        lowered == str_lower(input)
        exact   == {i \in 1..n : \/ str_lower(candidates[i].intent_name) = lowered
                                 \/ str_lower(candidates[i].display_name) = lowered}
        letter  == {i \in 1..n : lowered = <<LowerChars[i]>>}
        partial == {i \in 1..n : /\ lowered # <<>>
                                 /\ letter = {}
                                 /\ str_has(str_lower(candidates[i].display_name), lowered)}
        number  == {i \in 1..n : /\ i \in DOMAIN Digits
                                 /\ input = <<Digits[i]>>}
        first(S) == CHOOSE i \in S : \A j \in S : i <= j
    IN  IF exact # {} THEN first(exact)
        ELSE IF partial # {} THEN first(partial)
        ELSE IF number # {} THEN first(number)
        ELSE IF letter # {} THEN first(letter)
        ELSE 0

\* the fallback response of the disambiguation handler
create_fallback_response(request) ==
    close(request, <<PlainText("disambiguation.fallback")>>)

\* a selection that leaves the slots of the request as they were
process_disambiguation_response_keeping_slots(request) ==
    LET attrs == request.sessionState.sessionAttributes
        candidates == IF attrs.disambiguation_candidates = None THEN <<>>
                      ELSE loads_candidates(attrs.disambiguation_candidates[1])
        selected == resolve_user_selection(request.inputTranscript, candidates)
    IN  IF ~attrs.disambiguation_active
        THEN [kind |-> "return", response |-> None, exc |-> "", request |-> request]
        ELSE IF candidates = <<>> THEN create_fallback_response(request)
        ELSE IF selected # 0
        THEN [kind |-> "return", response |-> None, exc |-> "",
              request |-> clear_disambiguation_state(
                  [request EXCEPT
                      !.sessionState.intent.name = candidates[selected].intent_name,
                      !.sessionState.intent.state = "InProgress"])]
        ELSE create_fallback_response(clear_disambiguation_state(request))

\* process_disambiguation_response: no response when disambiguation is not
\* active or when the input selects a candidate
process_disambiguation_response(request) ==
    LET attrs == request.sessionState.sessionAttributes
        candidates == IF attrs.disambiguation_candidates = None THEN <<>>
                      ELSE loads_candidates(attrs.disambiguation_candidates[1])
        selected == resolve_user_selection(request.inputTranscript, candidates)
    IN  IF ~attrs.disambiguation_active
        THEN [kind |-> "return", response |-> None, exc |-> "", request |-> request]
        ELSE IF candidates = <<>> THEN create_fallback_response(request)
        ELSE IF selected # 0
        THEN [kind |-> "return", response |-> None, exc |-> "",
              request |-> clear_disambiguation_state(
                  [request EXCEPT
                      !.sessionState.intent.slots = EmptyDict,
                      !.sessionState.intent.name = candidates[selected].intent_name,
                      !.sessionState.intent.state = "InProgress"])]
        ELSE create_fallback_response(clear_disambiguation_state(request))

----------------------------------------------------------------------------
(* Orchestrator *)

Common_Exit_Feedback ==
    <<"C","o","m","m","o","n","_","E","x","i","t","_","F","e","e","d","b","a","c","k">>

TransitionToExit ==
    [name |-> "transition_to_exit",
     timeToLive |-> Some([timeToLiveInSeconds |-> 900, turnsToLive |-> Some(20)])]

\* a regular_intent_handler that dispatches whatever the slot choice was
regular_intent_handler_dispatching(lex_payload, package, bot) ==
    LET intent_name == lex_payload.sessionState.intent.name
        stamped == [lex_payload EXCEPT
                       !.sessionState.sessionAttributes.lex_intent = Some(intent_name),
                       !.sessionState.activeContexts =
                           IF ~str_has(intent_name, Common_Exit_Feedback)
                           THEN <<TransitionToExit>> ELSE @]
    IN  call_handler_for_file(intent_name, stamped, package, bot, 0)

\* regular_intent_handler: the unknown-slot-choice check, else the dispatch
\* by the current intent name
regular_intent_handler(lex_payload, package, bot) ==
    LET intent_name == lex_payload.sessionState.intent.name
        stamped == [lex_payload EXCEPT
                       !.sessionState.sessionAttributes.lex_intent = Some(intent_name),
                       !.sessionState.activeContexts =
                           IF ~str_has(intent_name, Common_Exit_Feedback)
                           THEN <<TransitionToExit>> ELSE @]
    IN  Bind(any_unknown_slot_choices(stamped),
             LAMBDA checked :
                IF checked.unknown
                THEN handle_any_unknown_slot_choice(checked.request)
                ELSE call_handler_for_file(checked.request.sessionState.intent.name,
                                           checked.request, package, bot, 0))

\* a disambiguation step that takes every input as a new utterance
disambiguation_intent_handler_forgetting(lex_payload) ==
    LET analysis  == analyze_request(lex_payload)
        unanswered == [kind |-> "return", response |-> None, exc |-> "",
                       request |-> lex_payload]
    IN  IF any_unknown_slot_choices(lex_payload).unknown THEN unanswered
        ELSE IF analysis.should_disambiguate
        THEN handle_disambiguation(lex_payload, analysis.candidates)
        ELSE unanswered

\* a disambiguation step that analyzes the interpretations of the turn
\* after a selection too
disambiguation_intent_handler_reanalyzing(lex_payload) ==
    LET processed == process_disambiguation_response(lex_payload)
        analysis  == analyze_request(lex_payload)
        unanswered == [kind |-> "return", response |-> None, exc |-> "",
                       request |-> lex_payload]
    IN  IF any_unknown_slot_choices(lex_payload).unknown THEN unanswered
        ELSE IF lex_payload.sessionState.sessionAttributes.disambiguation_active
                    /\ processed.response # None
        THEN processed
        ELSE IF analysis.should_disambiguate
        THEN handle_disambiguation(processed.request, analysis.candidates)
        ELSE processed

\* the disambiguation step that precedes the dispatch when disambiguation is
\* enabled: a pending selection is resolved, else the interpretations are
\* analyzed; no response means that the dispatch goes ahead
disambiguation_intent_handler(lex_payload) ==
    LET processed == process_disambiguation_response(lex_payload)
        analysis  == analyze_request(lex_payload)
    IN  IF any_unknown_slot_choices(lex_payload).unknown
        THEN [kind |-> "return", response |-> None, exc |-> "", request |-> lex_payload]
        ELSE IF lex_payload.sessionState.sessionAttributes.disambiguation_active
        THEN processed
        ELSE IF analysis.should_disambiguate
        THEN handle_disambiguation(lex_payload, analysis.candidates)
        ELSE [kind |-> "return", response |-> None, exc |-> "", request |-> lex_payload]

\* a callback step that answers with the messages of the callback alone
process_callback_replacing(first, package, bot) ==
    LET resp == first.response[1]
        lex_payload == [first.request EXCEPT
                           !.sessionState = resp.sessionState,
                           !.requestAttributes = Some(resp.requestAttributes)]
    IN  IF "callback" \in DOMAIN resp.requestAttributes
        THEN Bind(call_handler_for_file(
                      resp.requestAttributes["callback"],
                      [lex_payload EXCEPT !.requestAttributes =
                          Some(dict_pop(resp.requestAttributes, "callback"))],
                      package, bot, 0),
                  LAMBDA second :
                     IF second.kind = "raise" THEN second
                     ELSE IF second.response = None
                     THEN Raise("AttributeError", second.request)
                     ELSE Return(second.response[1],
                                 [second.request EXCEPT
                                     !.sessionState = second.response[1].sessionState]))
        ELSE Return(resp, lex_payload)

\* the part of _main_handler that follows the handlers: the session state of
\* the response becomes the request's, and a callback stashed in the
\* response's requestAttributes is dispatched; its messages follow the
\* messages of the first response
process_callback(first, package, bot) ==
    LET resp == first.response[1]
        lex_payload == [first.request EXCEPT
                           !.sessionState = resp.sessionState,
                           !.requestAttributes = Some(resp.requestAttributes)]
        messages == resp.messages
    IN  IF "callback" \in DOMAIN resp.requestAttributes
        THEN LET callback_name == resp.requestAttributes["callback"]
                 popped == dict_pop(resp.requestAttributes, "callback")
             IN  Bind(call_handler_for_file(
                          callback_name,
                          [lex_payload EXCEPT !.requestAttributes = Some(popped)],
                          package, bot, 0),
                      LAMBDA second :
                         IF second.kind = "raise" THEN second
                         ELSE IF second.response = None
                         THEN Raise("AttributeError", second.request)
                         ELSE Return([second.response[1] EXCEPT
                                         !.messages = messages \o @],
                                     [second.request EXCEPT
                                         !.sessionState = second.response[1].sessionState]))
        ELSE Return(resp, lex_payload)

\* _main_handler: the handlers in turn until one gives a response;
\* IntentNotFoundError is raised again, any other exception of a handler is
\* logged and leaves no response, which is a ValueError; every exception but
\* IntentNotFoundError becomes the error response.
main_handler(lex_payload, package, bot, enable_disambiguation) ==
    LET run_handlers ==
            Bind(IF enable_disambiguation
                 THEN disambiguation_intent_handler(lex_payload)
                 ELSE [kind |-> "return", response |-> None, exc |-> "",
                       request |-> lex_payload],
                 LAMBDA early :
                    IF early.kind = "return" /\ early.response # None THEN early
                    ELSE regular_intent_handler(early.request, package, bot))
    IN  Bind(run_handlers,
             LAMBDA first :
                IF first.kind = "raise" /\ first.exc = "IntentNotFoundError" THEN first
                ELSE IF first.kind = "raise" \/ first.response = None
                THEN handle_exceptions("ValueError", first.request)
                ELSE Bind(process_callback(first, package, bot),
                          LAMBDA done :
                             IF done.kind = "raise" /\ done.exc = "IntentNotFoundError"
                             THEN done
                             ELSE IF done.kind = "raise"
                             THEN handle_exceptions(done.exc, done.request)
                             ELSE done))

----------------------------------------------------------------------------
(* Names used by the specifications *)

BookFlight   == <<"B","o","o","k","F","l","i","g","h","t">>
ChangeFlight == <<"C","h","a","n","g","e","F","l","i","g","h","t">>
Authenticate == <<"A","u","t","h","e","n","t","i","c","a","t","e">>
Common_Greeting_Auth ==
    <<"C","o","m","m","o","n","_","G","r","e","e","t","i","n","g","_","A","u","t","h">>
Get_Id       == <<"G","e","t","_","I","d">>
DottedName   == <<"A",".","B">>
OriginCity   == <<"O","r","i","g","i","n","C","i","t","y">>
DottedSlot   == <<"a",".","b">>
BotPackage   == <<"b","o","t">>

FallbackIntent ==
    <<"F","a","l","l","b","a","c","k","I","n","t","e","n","t">>
Lost         == <<"L","o","s","t">>

\* the key elicit_slot stores for the slot OriginCity of BookFlight
BookFlightSlotKey ==
    <<"B","o","o","k","F","l","i","g","h","t","S","l","o","t",".",
      "O","R","I","G","I","N","C","I","T","Y">>

\* the bounds of the model
MaxNameLen  == 3
MaxContexts == 2
MaxCalls    == 2
MaxTurns    == 2

----------------------------------------------------------------------------
(* Specification SpecNaming: the dispatcher's naming convention applied to *)
(* every intent name over a small alphabet and to the documented names.    *)

NameAlphabet == {"B", "o", "_", "F"}
NamingInputs ==
    StringsUpTo(NameAlphabet, MaxNameLen) \cup {BookFlight, Common_Greeting_Auth}

DialogIdle ==
    /\ event = None
    /\ lex_request = None
    /\ response = None
    /\ last_call = None

EngineIdle ==
    /\ engine_call = None
    /\ engine_result = None

OrchIdle ==
    /\ config = None
    /\ modules = None
    /\ session = None
    /\ outcome = None
    /\ turn = 0

NamingIdle ==
    /\ dispatch_intent = None
    /\ dispatch_package = None
    /\ file_to_import = None

InitNaming ==
    /\ dispatch_intent \in {Some(n) : n \in NamingInputs}
    /\ dispatch_package \in {None, Some(BotPackage)}
    /\ file_to_import = None
    /\ DialogIdle
    /\ OrchIdle
    /\ EngineIdle

\* call_handler_for_file, up to the import of the handler module
ImportHandlerModule ==
    /\ dispatch_intent # None
    /\ file_to_import = None
    /\ file_to_import' = Some(module_path(dispatch_intent[1], dispatch_package))
    /\ UNCHANGED <<dispatch_intent, dispatch_package, dialogVars, orchVars, engineVars>>

NextNaming == ImportHandlerModule

SpecNaming == InitNaming /\ [][NextNaming]_vars

----------------------------------------------------------------------------
(* Specification SpecDialog: a parsed request and the dialog primitives a  *)
(* handler calls on it, one after the other, within one turn.              *)

ContextKinds ==
    { Context("no_ttl", None),
      Context("expired", TimeToLive(Some(0))),
      Context("live", TimeToLive(Some(1))),
      Context("no_turns", TimeToLive(None)) }

ContextLists == UNION {[1..k -> ContextKinds] : k \in 0..MaxContexts}

FilledSlots == [x \in {OriginCity} |->
                   Some(SlotDict(PyStr(<<"S","E","A">>), PyStr(<<"s","e","a">>), <<>>))]

Intent(n, sl) == [name |-> n, slots |-> sl, state |-> "InProgress"]

DialogIntents ==
    { Intent(BookFlight, EmptyDict), Intent(BookFlight, FilledSlots),
      Intent(Get_Id, EmptyDict), Intent(DottedName, EmptyDict) }

WireAttrs ==
    { EmptyDict,
      [previous_dialog_action_type |-> "ElicitIntent", error_count |-> 1] }

Event(c, a, i) ==
    [ sessionState      |-> [ activeContexts    |-> c,
                              sessionAttributes |-> a,
                              intent            |-> i ],
      inputTranscript   |-> <<"h","i">>,
      interpretations   |-> <<>>,
      requestAttributes |-> None ]

DialogEvents ==
    { Event(c, a, i) : c \in ContextLists, a \in WireAttrs, i \in DialogIntents }

MessageLists ==
    { <<PlainText("hello")>>,
      <<PlainText("pick"), ImageCard("card", <<"yes", "no">>)>> }

SlotNames  == {OriginCity, DottedSlot}

Calls == IF last_call = None THEN 0 ELSE last_call[1].n

Called(op, args, pre, result) ==
    Some([op |-> op, args |-> args, pre |-> pre, kind |-> result.kind,
          exc |-> result.exc, n |-> Calls + 1])

InitDialog ==
    /\ \E data \in DialogEvents :
          /\ event = Some(data)
          /\ lex_request = Some(parse_lex_request(data, SessionAttributesDefaults))
    /\ response = None
    /\ last_call = None
    /\ NamingIdle
    /\ OrchIdle
    /\ EngineIdle

\* the handler calls a primitive: the request is left as the primitive
\* mutated it, also when the primitive raised
Primitive(op, args, result) ==
    /\ lex_request # None
    /\ Calls < MaxCalls
    /\ lex_request' = Some(result.request)
    /\ response' = result.response
    /\ last_call' = Called(op, args, lex_request[1], result)
    /\ UNCHANGED <<event, nameVars, orchVars, engineVars>>

CallClose ==
    \E m \in MessageLists :
        Primitive("close", [messages |-> m], close(lex_request[1], m))

CallDelegate ==
    Primitive("delegate", EmptyDict, delegate(lex_request[1]))

CallElicitIntent ==
    \E m \in MessageLists :
        Primitive("elicit_intent", [messages |-> m], elicit_intent(m, lex_request[1]))

CallElicitSlot ==
    \E s \in SlotNames, m \in MessageLists :
        Primitive("elicit_slot", [slot |-> s, messages |-> m],
                  elicit_slot(s, m, lex_request[1]))

CallRepromptSlot ==
    Primitive("reprompt_slot", EmptyDict, reprompt_slot(lex_request[1]))

NextDialog ==
    \/ CallClose
    \/ CallDelegate
    \/ CallElicitIntent
    \/ CallElicitSlot
    \/ CallRepromptSlot

SpecDialog == InitDialog /\ [][NextDialog]_vars

----------------------------------------------------------------------------
(* Specification SpecSlots: set_slot applied to the intent of a request,   *)
(* for every slot name and value of a small set, and read back by get_slot *)

Day == <<"D","a","y">>

SetSlotNames == {OriginCity, Day}
SlotValues == {PyNone, PyStr(<<>>), PyStr(<<"N","Y","C">>), PyNum(<<"0">>), PyNum(<<"7">>)}

\* the slots of the inbound intent: each slot missing, unfilled or filled
SlotDicts ==
    LET Filled == Some(SlotDict(PyStr(<<"S","E","A">>), PyStr(<<"s","e","a">>), <<>>))
    IN  UNION {[keys -> {None, Filled}] : keys \in SUBSET SetSlotNames}

\* the session attributes of the event: none, or those of a turn that
\* elicited OriginCity or closed, after one failed attempt
SlotAttrs ==
    { EmptyDict,
      [previous_dialog_action_type |-> "ElicitSlot",
       previous_slot_to_elicit |-> OriginCity, error_count |-> 1],
      [previous_dialog_action_type |-> "Close",
       previous_slot_to_elicit |-> OriginCity, error_count |-> 1] }

InitSlots ==
    /\ \E sl \in SlotDicts, a \in SlotAttrs :
          LET data == Event(<<>>, a, Intent(BookFlight, sl))
          IN  /\ event = Some(data)
              /\ lex_request = Some(parse_lex_request(data, SessionAttributesDefaults))
    /\ response = None
    /\ last_call = None
    /\ NamingIdle
    /\ OrchIdle
    /\ EngineIdle

CallSetSlot ==
    \E s \in SetSlotNames, v \in SlotValues :
        LET intent == set_slot(s, v, lex_request[1].sessionState.intent)
        IN  Primitive("set_slot", [slot |-> s, value |-> v],
                      [kind |-> "return", response |-> response, exc |-> "",
                       request |-> [lex_request[1] EXCEPT !.sessionState.intent = intent]])

\* the handler asks whether the elicited slot came back unknown; the
\* answer is kept in engine_result
CallAnyUnknownSlotChoices ==
    /\ lex_request # None
    /\ Calls < MaxCalls
    /\ \E r \in {any_unknown_slot_choices(lex_request[1])} :
          /\ lex_request' = Some(r.request)
          /\ engine_result' = Some(r.unknown)
          /\ last_call' = Called("any_unknown_slot_choices", EmptyDict, lex_request[1],
                                 Return(None, r.request))
    /\ UNCHANGED <<event, response, engine_call, nameVars, orchVars>>

NextSlots ==
    \/ CallSetSlot
    \/ CallAnyUnknownSlotChoices

SpecSlots == InitSlots /\ [][NextSlots]_vars

----------------------------------------------------------------------------
(* Specification SpecEngine: one call of an operation of the               *)
(* disambiguation engine, or of the error policy, on bounded arguments.    *)

MaxScores == 3

ScoreValues == {0, 5, 35, 40, 45, 59, 60, 70, 75, 80, 90}

ScoredIntents == <<BookFlight, ChangeFlight, Authenticate, Get_Id, FallbackIntent>>

\* the scores of an event whose interpretations have the given confidences
Scored(values) ==
    [i \in 1..Len(values) |->
        [name |-> ScoredIntents[i], score |-> values[i], slots |-> EmptyDict]]

ScoreLists == UNION {[1..n -> ScoreValues] : n \in 0..MaxScores}

CancelFlight == <<"C","a","n","c","e","l","F","l","i","g","h","t">>
RebookFlight == <<"R","e","b","o","o","k","F","l","i","g","h","t">>

Candidate(name, display, score) ==
    [intent_name      |-> name,
     confidence_score |-> score,
     display_name     |-> display,
     description      |-> <<>>,
     required_slots   |-> {}]

BookAFlight == Candidate(BookFlight, <<"B","o","o","k"," ","a"," ","F","l","i","g","h","t">>, 70)
ChangeAFlight == Candidate(ChangeFlight, <<"C","h","a","n","g","e"," ","F","l","i","g","h","t">>, 60)
CancelAFlight == Candidate(CancelFlight, <<"C","a","n","c","e","l"," ","F","l","i","g","h","t">>, 50)
RebookAFlight == Candidate(RebookFlight, <<"R","e","b","o","o","k"," ","F","l","i","g","h","t">>, 45)

OfferedCandidates == <<BookAFlight, ChangeAFlight, CancelAFlight, RebookAFlight>>

CandidateLists ==
    {SubSeq(OfferedCandidates, 1, n) : n \in 0..Len(OfferedCandidates)}
        \cup {<<ChangeAFlight, BookAFlight>>, <<CancelAFlight, ChangeAFlight, BookAFlight>>}

\* what the user may answer to the question
SelectionInputs ==
    { <<"1">>, <<"2">>, <<"3">>, <<"4">>, <<"5">>, <<"a">>, <<"b">>, <<"c">>, <<"d">>,
      <<"A">>, <<"B">>, <<"e">>, <<"k">>, <<"1","2">>, <<"a","b">>,
      <<"b","o","o","k">>, <<"B","O","O","K">>, <<"c","h","a","n","g","e">>,
      <<"f","l","i","g","h","t">>, <<"x","y","z">>, <<"a"," ","f">>,
      <<"b","o","o","k","f","l","i","g","h","t">>, BookFlight, ChangeFlight,
      <<"b","o","o","k"," ","a"," ","f","l","i","g","h","t">>,
      <<"C","a","n","c","e","l"," ","F","l","i","g","h","t">>,
      <<"c","a","n">>, <<"r","e","b","o","o","k">> }

\* a request of the second turn: the stored state and the user's answer
AnswerRequest(input, active, stored, slots) ==
    parse_lex_request(
        [ sessionState      |->
            [ activeContexts    |-> <<>>,
              sessionAttributes |-> [disambiguation_active |-> active,
                                     disambiguation_candidates |-> stored],
              intent            |-> [name |-> FallbackIntent, slots |-> slots,
                                     state |-> "ReadyForFulfillment"] ],
          inputTranscript   |-> input,
          interpretations   |-> <<>>,
          requestAttributes |-> None ],
        SessionAttributesDefaults)

AnswerRequests ==
    { AnswerRequest(input, active, stored, slots) :
        input \in { <<"1">>, <<"2">>, <<"b">>, <<"4">>, <<"b","o","o","k">>,
                    <<"x","y","z">>, ChangeFlight },
        active \in BOOLEAN,
        stored \in {None} \cup {Some(dumps_candidates(c)) :
                                    c \in {cl \in CandidateLists : Len(cl) <= MaxCandidates}},
        slots \in {EmptyDict, FilledSlots} }

\* what a handler may raise
RaisedErrors ==
    { Error(t, m) :
        t \in {"ValidationError", "SessionError", "IntentNotFoundError",
               "ValueError", "RuntimeError", "KeyError"},
        m \in {"", "Invalid input", "Session issue"} }

\* the slots of the interpretation at each rank
AnalyzedSlots ==
    << [x \in {OriginCity} |-> None], EmptyDict, [x \in {OriginCity, Day} |-> None],
       EmptyDict, [x \in {Day} |-> None] >>

\* the confidence of an interpretation: missing, or a score
Confidences == {None, Some(40), Some(50), Some(90)}

ConfidenceLists == UNION {[1..n -> Confidences] : n \in 0..(MaxCandidates + 1)}

\* a request of the first turn, its interpretations having the given
\* confidences
AnalyzedRequest(confidences) ==
    parse_lex_request(
        [ sessionState      |->
            [ activeContexts    |-> <<>>,
              sessionAttributes |-> EmptyDict,
              intent            |-> Intent(ScoredIntents[1], EmptyDict) ],
          inputTranscript   |-> <<"f","l","y">>,
          interpretations   |->
              [i \in 1..Len(confidences) |->
                  [intent |-> Intent(ScoredIntents[i], AnalyzedSlots[i]),
                   nluConfidence |-> confidences[i]]],
          requestAttributes |-> None ],
        SessionAttributesDefaults)

EngineCalls ==
    {[op |-> "should_disambiguate", scores |-> Scored(v)] : v \in ScoreLists}
    \cup {[op |-> "analyze_request", request |-> AnalyzedRequest(c)] :
             c \in ConfidenceLists}
    \cup {[op |-> "resolve_user_selection", input |-> i, candidates |-> c] :
             i \in SelectionInputs, c \in CandidateLists}
    \cup {[op |-> "process_disambiguation_response", request |-> r] :
             r \in AnswerRequests}
    \cup {[op |-> "handle_exceptions", error |-> e, request |-> r] :
             e \in RaisedErrors, r \in AnswerRequests}
    \cup {[op |-> "handle_disambiguation", candidates |-> c,
           request |-> AnswerRequest(<<"f","l","y">>, FALSE, None, slots)] :
             c \in {cl \in CandidateLists : Len(cl) >= MinCandidates},
             slots \in {EmptyDict, FilledSlots}}

InitEngine ==
    /\ engine_call \in {Some(c) : c \in EngineCalls}
    /\ engine_result = None
    /\ NamingIdle
    /\ DialogIdle
    /\ OrchIdle

Engine(op) ==
    /\ engine_call # None
    /\ engine_result = None
    /\ engine_call[1].op = op

CallShouldDisambiguate ==
    /\ Engine("should_disambiguate")
    /\ engine_result' = Some(should_disambiguate(engine_call[1].scores))
    /\ UNCHANGED <<engine_call, nameVars, dialogVars, orchVars>>

CallResolveUserSelection ==
    /\ Engine("resolve_user_selection")
    /\ engine_result' = Some(resolve_user_selection(engine_call[1].input,
                                                    engine_call[1].candidates))
    /\ UNCHANGED <<engine_call, nameVars, dialogVars, orchVars>>

CallProcessDisambiguationResponse ==
    /\ Engine("process_disambiguation_response")
    /\ engine_result' = Some(process_disambiguation_response(engine_call[1].request))
    /\ UNCHANGED <<engine_call, nameVars, dialogVars, orchVars>>

CallHandleDisambiguation ==
    /\ Engine("handle_disambiguation")
    /\ engine_result' = Some(handle_disambiguation(engine_call[1].request,
                                                   engine_call[1].candidates))
    /\ UNCHANGED <<engine_call, nameVars, dialogVars, orchVars>>

CallAnalyzeRequest ==
    /\ Engine("analyze_request")
    /\ engine_result' = Some(analyze_request(engine_call[1].request))
    /\ UNCHANGED <<engine_call, nameVars, dialogVars, orchVars>>

CallHandleExceptions ==
    /\ Engine("handle_exceptions")
    /\ engine_result' = Some(handle_exceptions_of(engine_call[1].error,
                                                  engine_call[1].request))
    /\ UNCHANGED <<engine_call, nameVars, dialogVars, orchVars>>

NextEngine ==
    \/ CallHandleExceptions
    \/ CallShouldDisambiguate
    \/ CallResolveUserSelection
    \/ CallProcessDisambiguationResponse
    \/ CallHandleDisambiguation
    \/ CallAnalyzeRequest

SpecEngine == InitEngine /\ [][NextEngine]_vars

----------------------------------------------------------------------------
(* Specification Spec: a LexHelper with its Config and the handler modules *)
(* of a bot, invoked once per turn of a session.  The platform sends back  *)
(* the session attributes of the last response.                            *)

Configs ==
    [ package_name          : {None, Some(BotPackage)},
      enable_disambiguation : BOOLEAN,
      session_attributes    : {SessionAttributesDefaults} ]

SignIn   == <<PlainText("please sign in")>>
SignedIn == <<PlainText("signed in")>>
Booked   == <<PlainText("booked")>>

BookFlightScripts ==
    { Script("close", None, None, Booked),
      Script("delegate", None, None, <<>>),
      Script("elicit_intent", None, None, Booked),
      Script("elicit_slot", None, OriginCity, Booked),
      Script("raise", None, None, <<>>),
      Script("return_none", None, None, <<>>),
      Script("no_handler", None, None, <<>>),
      Script("transition_to_callback", Authenticate, None, SignIn),
      Script("transition_to_callback", Lost, None, SignIn),
      Script("transition_to_intent", Authenticate, None, SignIn),
      Script("transition_to_intent", Lost, None, SignIn) }

AuthenticateScripts ==
    { Script("close", None, None, SignedIn),
      Script("raise", None, None, <<>>),
      Script("transition_to_callback", Authenticate, None, SignedIn),
      Script("transition_to_intent", BookFlight, None, SignedIn) }

\* the handler modules of a bot, installed under the configured package
Bot(book, auth, package) ==
    LET file(n) == module_path(n, package)
        names   == {BookFlight, ChangeFlight, Authenticate, FallbackIntent}
    IN  [f \in {file(n) : n \in names} |->
            IF f = file(BookFlight) THEN book
            ELSE IF f = file(Authenticate) THEN auth
            ELSE Script("close", None, None, <<PlainText("done")>>)]

\* the slots of an event in which the platform filled the slot stored under
\* the key of the last elicit_slot with a value that is not a string
UnknownChoiceSlots ==
    [x \in {BookFlightSlotKey} |-> Some(SlotDict(PyNum(<<"7">>), PyNum(<<"7">>), <<>>))]

Interpretation(n, score) ==
    [intent |-> Intent(n, EmptyDict), nluConfidence |-> Some(score)]

AmbiguousInterpretations ==
    <<Interpretation(BookFlight, 42), Interpretation(ChangeFlight, 38)>>

\* what the user says in a turn, as the platform understood it
Utterances ==
    { [intent |-> BookFlight, slots |-> EmptyDict, inputTranscript |-> <<"h","i">>,
       interpretations |-> <<Interpretation(BookFlight, 90),
                             Interpretation(ChangeFlight, 5)>>],
      [intent |-> BookFlight, slots |-> EmptyDict, inputTranscript |-> <<"f","l","y">>,
       interpretations |-> <<Interpretation(BookFlight, 42),
                             Interpretation(ChangeFlight, 38)>>],
      [intent |-> FallbackIntent, slots |-> EmptyDict, inputTranscript |-> <<"2">>,
       interpretations |-> <<Interpretation(FallbackIntent, 100)>>],
      [intent |-> FallbackIntent, slots |-> EmptyDict, inputTranscript |-> <<"x","y","z">>,
       interpretations |-> <<Interpretation(FallbackIntent, 100)>>],
      [intent |-> Lost, slots |-> EmptyDict, inputTranscript |-> <<"h","i">>,
       interpretations |-> <<Interpretation(Lost, 95)>>],
      [intent |-> BookFlight, slots |-> UnknownChoiceSlots, inputTranscript |-> <<"7">>,
       interpretations |-> <<Interpretation(BookFlight, 90)>>],
      [intent |-> FallbackIntent, slots |-> EmptyDict, inputTranscript |-> <<"1">>,
       interpretations |-> AmbiguousInterpretations] }

TurnEvent(u, attrs) ==
    [ sessionState      |-> [ activeContexts    |-> <<>>,
                              sessionAttributes |-> attrs,
                              intent            |-> Intent(u.intent, u.slots) ],
      inputTranscript   |-> u.inputTranscript,
      interpretations   |-> u.interpretations,
      requestAttributes |-> None ]

Init ==
    /\ config \in Configs
    /\ modules \in {Bot(b, a, config.package_name) :
                        b \in BookFlightScripts, a \in AuthenticateScripts}
    /\ session = EmptyDict
    /\ outcome = None
    /\ turn = 0
    /\ DialogIdle
    /\ NamingIdle
    /\ EngineIdle

\* LexHelper.handler: one invocation, from the parse of the event to the
\* response or the exception.  An event without session attributes leaves
\* the Config's own instance as the one the turn mutates.
Turn ==
    /\ turn < MaxTurns
    /\ \E u \in Utterances :
       \E data \in {TurnEvent(u, session)} :
       \E result \in {main_handler(parse_lex_request(data, config.session_attributes),
                                    config.package_name, modules,
                                    config.enable_disambiguation)} :
              /\ event' = Some(data)
              /\ lex_request' = Some(result.request)
              /\ response' = result.response
              /\ outcome' = Some([kind |-> result.kind, exc |-> result.exc])
              /\ session' = IF result.kind = "return"
                            THEN result.response[1].sessionState.sessionAttributes
                            ELSE session
              /\ config' = IF DOMAIN session = {}
                           THEN [config EXCEPT !.session_attributes =
                                    result.request.sessionState.sessionAttributes]
                           ELSE config
    /\ turn' = turn + 1
    /\ UNCHANGED <<modules, last_call, nameVars, engineVars>>

\* the platform starts a new session for the same LexHelper
NewSession ==
    /\ turn < MaxTurns
    /\ DOMAIN session # {}
    /\ session' = EmptyDict
    /\ UNCHANGED <<config, modules, outcome, turn, dialogVars, nameVars, engineVars>>

Next == Turn \/ NewSession

Spec == Init /\ [][Next]_vars

----------------------------------------------------------------------------
(* Specification SpecTransfer: a handler of a bot, called with the parsed  *)
(* request, hands the conversation to another intent: by                   *)
(* transition_to_intent, by transition_to_callback or by                   *)
(* callback_original_intent_handler.  The bot's handler modules are        *)
(* installed under the package of its Config.                              *)

Hello == <<PlainText("hello")>>

TransferTargetScripts ==
    { Script("close", None, None, <<PlainText("signed in")>>),
      Script("elicit_intent", None, None, <<PlainText("signed in")>>),
      Script("delegate", None, None, <<>>),
      Script("raise", None, None, <<>>) }

\* the handler modules of the bot: the two intents and the greeting
TransferBot(script, package) ==
    LET file(n) == module_path(n, package)
    IN  [f \in {file(BookFlight), file(Authenticate), file(FallbackHandlerName)} |->
            IF f = file(FallbackHandlerName) THEN Script("close", None, None, Hello)
            ELSE script]

\* the event a handler stashed in callback_event before it asked to sign in
StashedEvent ==
    [ sessionState      |-> [ activeContexts    |-> <<Context("expired", TimeToLive(Some(0)))>>,
                              sessionAttributes |-> [error_count |-> 0],
                              intent            |-> Intent(BookFlight, FilledSlots) ],
      inputTranscript   |-> <<"f","l","y">>,
      interpretations   |-> <<>>,
      requestAttributes |-> None ]

TransferAttrs ==
    { EmptyDict,
      [error_count |-> 1],
      [error_count |-> 1, callback_handler |-> Some(BookFlight)],
      [error_count |-> 1, callback_handler |-> Some(Authenticate)],
      [error_count |-> 1, callback_handler |-> Some(BookFlight),
       callback_event |-> Some(json_dumps(StashedEvent))],
      [error_count |-> 1, callback_event |-> Some(json_dumps(StashedEvent))] }

TransferEvents ==
    { Event(c, a, i) :
        c \in {<<>>, <<Context("live", TimeToLive(Some(1)))>>},
        a \in TransferAttrs,
        i \in {Intent(Authenticate, EmptyDict), Intent(ChangeFlight, FilledSlots)} }

TransferMessages == { <<>>, <<PlainText("please sign in")>>,
                      <<PlainText("one"), PlainText("two")>> }

InitTransfer ==
    /\ config \in {c \in Configs : ~c.enable_disambiguation}
    /\ modules \in {TransferBot(t, config.package_name) : t \in TransferTargetScripts}
    /\ \E data \in TransferEvents :
          /\ event = Some(data)
          /\ lex_request = Some(parse_lex_request(data, config.session_attributes))
    /\ response = None
    /\ last_call = None
    /\ session = EmptyDict
    /\ outcome = None
    /\ turn = 0
    /\ NamingIdle
    /\ EngineIdle

\* the handler makes the call; the request is left as the call mutated it
Transfer(op, args, result) ==
    /\ last_call = None
    /\ lex_request' = Some(result.request)
    /\ response' = result.response
    /\ last_call' = Called(op, args, lex_request[1], result)
    /\ UNCHANGED <<event, nameVars, orchVars, engineVars>>

CallTransitionToIntent ==
    /\ last_call = None
    /\ \E target \in {Authenticate, BookFlight, Lost}, m \in TransferMessages :
       \E result \in {transition_to_intent(target, lex_request[1], m, modules, 1)} :
           Transfer("transition_to_intent", [target |-> target, messages |-> m], result)

CallTransitionToCallback ==
    /\ last_call = None
    /\ \E target \in {Authenticate, BookFlight, Lost}, m \in TransferMessages :
       \E result \in {transition_to_callback(target, lex_request[1], m)} :
           Transfer("transition_to_callback", [target |-> target, messages |-> m], result)

CallCallbackOriginalIntentHandler ==
    /\ last_call = None
    /\ \E result \in {callback_original_intent_handler(lex_request[1], modules, 1)} :
           Transfer("callback_original_intent_handler", EmptyDict, result)

NextTransfer ==
    \/ CallTransitionToIntent
    \/ CallTransitionToCallback
    \/ CallCallbackOriginalIntentHandler

SpecTransfer == InitTransfer /\ [][NextTransfer]_vars

----------------------------------------------------------------------------
(* Specification SpecParse: a LexHelper is given an event, well-formed or  *)
(* not; either the event is parsed alone or LexHelper.handler is invoked.  *)

\* LexRequest(**data) validates: sessionState.intent.name is required
well_formed(data) ==
    /\ "sessionState" \in DOMAIN data
    /\ "intent" \in DOMAIN data.sessionState
    /\ "name" \in DOMAIN data.sessionState.intent

\* parse_lex_request on any event: pydantic's ValidationError on one that
\* lacks a required field
parse_event(data, sessionAttributes) ==
    IF well_formed(data)
    THEN [kind |-> "return", exc |-> "",
          request |-> Some(parse_lex_request(data, sessionAttributes))]
    ELSE [kind |-> "raise", exc |-> "ValidationError", request |-> None]

\* LexHelper.handler: the parse is not guarded, then _main_handler
lex_helper_handler(data, cfg, bot) ==
    Bind(parse_event(data, cfg.session_attributes),
         LAMBDA parsed :
            IF parsed.kind = "raise"
            THEN [kind |-> "raise", response |-> None, exc |-> parsed.exc,
                  request |-> None]
            ELSE Bind(main_handler(parsed.request[1], cfg.package_name, bot,
                                   cfg.enable_disambiguation),
                      LAMBDA result : [result EXCEPT !.request = Some(@)]))

Sms == <<"s","m","s">>

\* the instance the caller configured: fresh, or made for another channel
CallerAttrs ==
    { SessionAttributesDefaults,
      [SessionAttributesDefaults EXCEPT !.channel = Sms] }

InvalidEvents ==
    { [invalid |-> <<"e","v","e","n","t">>],
      [sessionState |-> [sessionAttributes |-> EmptyDict],
       inputTranscript |-> <<"h","i">>],
      [sessionState |-> [sessionAttributes |-> EmptyDict,
                         intent |-> [slots |-> EmptyDict]],
       inputTranscript |-> <<"h","i">>] }

InitParse ==
    /\ config \in [ package_name          : {None},
                     enable_disambiguation : {FALSE},
                     session_attributes    : CallerAttrs ]
    /\ modules = Bot(Script("close", None, None, Booked),
                     Script("close", None, None, SignedIn), None)
    /\ event \in {Some(data) : data \in DialogEvents \cup InvalidEvents}
    /\ lex_request = None
    /\ response = None
    /\ last_call = None
    /\ session = EmptyDict
    /\ outcome = None
    /\ turn = 0
    /\ NamingIdle
    /\ EngineIdle

CallParseLexRequest ==
    /\ last_call = None
    /\ \E parsed \in {parse_event(event[1], config.session_attributes)} :
          /\ lex_request' = parsed.request
          /\ outcome' = Some([kind |-> parsed.kind, exc |-> parsed.exc])
    /\ last_call' = Some([op |-> "parse_lex_request"])
    /\ UNCHANGED <<event, response, config, modules, session, turn, nameVars, engineVars>>

CallHandler ==
    /\ last_call = None
    /\ \E result \in {lex_helper_handler(event[1], config, modules)} :
          /\ lex_request' = result.request
          /\ response' = result.response
          /\ outcome' = Some([kind |-> result.kind, exc |-> result.exc])
    /\ last_call' = Some([op |-> "handler"])
    /\ UNCHANGED <<event, config, modules, session, turn, nameVars, engineVars>>

NextParse == CallParseLexRequest \/ CallHandler

SpecParse == InitParse /\ [][NextParse]_vars

----------------------------------------------------------------------------
(* Claims about the dialog primitives (SpecDialog)                         *)

CallMade(op) == last_call # None /\ last_call[1].op = op
Returned     == last_call # None /\ last_call[1].kind = "return"

ActionTypeOf(op) ==
    CASE op = "close"         -> "Close"
      [] op = "delegate"      -> "Delegate"
      [] op = "elicit_intent" -> "ElicitIntent"
      [] op = "elicit_slot"   -> "ElicitSlot"

\* C6: the response of close, delegate, elicit_intent or elicit_slot names
\* the intent of the inbound event and carries the dialog action type of the
\* primitive that was called.
C6_PrimitiveKeepsIntentAndType ==
    (Returned /\ last_call[1].op \in {"close", "delegate", "elicit_intent", "elicit_slot"})
        => /\ response # None
           /\ response[1].sessionState.intent.name = event[1].sessionState.intent.name
           /\ response[1].sessionState.intent.name = last_call[1].pre.sessionState.intent.name
           /\ response[1].sessionState.dialogAction # None
           /\ response[1].sessionState.dialogAction[1].type = ActionTypeOf(last_call[1].op)

\* C6 witness: close has answered as the second primitive of a turn on the
\* intent Get_Id, after an elicit_slot.
C6_Witness ==
    /\ CallMade("close") /\ Returned
    /\ last_call[1].n = 2
    /\ last_call[1].pre.sessionState.sessionAttributes.previous_dialog_action_type = "ElicitSlot"
    /\ event[1].sessionState.intent.name = Get_Id

\* C7: elicit_slot fails exactly when slot_name contains a '.'; otherwise,
\* for every intent name, previous_slot_to_elicit is the intent name without
\* underscores, "Slot.", and the upper-cased slot name, a key with exactly
\* one '.', and the dialog action is ElicitSlot for that slot.
C7_ElicitSlotKeyHasOneDot ==
    CallMade("elicit_slot") =>
        LET slot == last_call[1].args.slot
            name == last_call[1].pre.sessionState.intent.name
            key  == lex_request[1].sessionState.sessionAttributes.previous_slot_to_elicit
        IN  /\ (last_call[1].kind = "raise") <=> str_contains(slot, ".")
            /\ Returned =>
                 /\ key = str_remove(name, "_") \o SlotSuffix \o <<".">> \o str_upper(slot)
                 /\ (name = BookFlight /\ slot = OriginCity) => key = BookFlightSlotKey
                 /\ str_count(key, ".") = 1
                 /\ response[1].sessionState.dialogAction =
                        Some(DialogAction("ElicitSlot", Some(slot)))

\* C8: no context whose turnsToLive is 0 is among the activeContexts of the
\* parsed request.
C8_NoExpiredContextAfterParse ==
    lex_request # None =>
        \A i \in DOMAIN lex_request[1].sessionState.activeContexts :
            LET context == lex_request[1].sessionState.activeContexts[i]
            IN  ~(context.timeToLive # None /\ context.timeToLive[1].turnsToLive = Some(0))

\* C8 witness: the event held an expired context before a live one, and the
\* request just parsed holds the live one alone.
C8_Witness ==
    /\ last_call = None
    /\ event # None /\ lex_request # None
    /\ event[1].sessionState.activeContexts =
          <<Context("expired", TimeToLive(Some(0))), Context("live", TimeToLive(Some(1)))>>
    /\ lex_request[1].sessionState.activeContexts = <<Context("live", TimeToLive(Some(1)))>>

----------------------------------------------------------------------------
(* Claims about the slot accessors (SpecSlots)                             *)

\* C9: after set_slot(s, v, intent), get_slot(s, intent) is v, and every
\* other slot of the intent is as it was.
C9_SlotRoundTrip ==
    CallMade("set_slot") =>
        LET s      == last_call[1].args.slot
            v      == last_call[1].args.value
            before == last_call[1].pre.sessionState.intent.slots
            intent == lex_request[1].sessionState.intent
        IN  /\ get_slot(s, intent, "") = v
            /\ DOMAIN intent.slots = (DOMAIN before) \cup {s}
            /\ \A k \in (DOMAIN before) \ {s} : intent.slots[k] = before[k]

\* C9 witness: the empty string was set on OriginCity while Day was filled.
C9_Witness ==
    /\ CallMade("set_slot")
    /\ last_call[1].args.slot = OriginCity
    /\ last_call[1].args.value = PyStr(<<>>)
    /\ Day \in DOMAIN last_call[1].pre.sessionState.intent.slots
    /\ last_call[1].pre.sessionState.intent.slots[Day] # None
    /\ lex_request[1].sessionState.intent.slots[Day] # None

----------------------------------------------------------------------------
(* Claims about the dispatcher's naming convention (SpecNaming)            *)

book_flight == <<"b","o","o","k","_","f","l","i","g","h","t">>
common_greeting_auth ==
    <<"c","o","m","m","o","n","_","g","r","e","e","t","i","n","g","_","a","u","t","h">>

\* C10: the module path is the package root, ".intents." and the mapped
\* name; a name with an underscore maps to itself lower-cased, character by
\* character; any other name maps to its snake_case form, lower-case, an
\* underscore before each capital but the first.
C10_NamingConvention ==
    file_to_import # None =>
        LET name   == dispatch_intent[1]
            root   == IF dispatch_package = None THEN DefaultPackage ELSE dispatch_package[1]
            path   == file_to_import[1]
            mapped == SubSeq(path, Len(root) + Len(DotIntentsDot) + 1, Len(path))
        IN  /\ SubSeq(path, 1, Len(root)) = root
            /\ SubSeq(path, Len(root) + 1, Len(root) + Len(DotIntentsDot)) = DotIntentsDot
            /\ str_contains(name, "_") =>
                 /\ Len(mapped) = Len(name)
                 /\ \A i \in 1..Len(name) : mapped[i] = char_lower(name[i])
            /\ ~str_contains(name, "_") =>
                 /\ \A i \in 1..Len(mapped) : ~IsUpperChar(mapped[i])
                 /\ str_remove(mapped, "_") = str_lower(name)
                 /\ str_count(mapped, "_") =
                        Cardinality({i \in 2..Len(name) : IsUpperChar(name[i])})
                 /\ \A i \in 1..Len(mapped) :
                        mapped[i] = "_" => (i > 1 /\ i < Len(mapped) /\ mapped[i + 1] # "_")
            /\ name = BookFlight => mapped = book_flight
            /\ name = Common_Greeting_Auth => mapped = common_greeting_auth

\* C10 witness: Common_Greeting_Auth was dispatched under the package bot.
C10_Witness ==
    /\ dispatch_intent = Some(Common_Greeting_Auth)
    /\ dispatch_package = Some(BotPackage)
    /\ file_to_import = Some(BotPackage \o DotIntentsDot \o common_greeting_auth)

----------------------------------------------------------------------------
(* Claims about the Orchestrator (Spec)                                    *)

Ended     == outcome # None
Answered  == outcome # None /\ outcome[1].kind = "return" /\ response # None
Invoked   == lex_request[1].invoked
Missed    == lex_request[1].missed
EventAttrs == event[1].sessionState.sessionAttributes
ResponseAttrs == response[1].sessionState.sessionAttributes
ResponseType  == response[1].sessionState.dialogAction[1].type
HandlerFile(n) == module_path(n, config.package_name)

\* C1: when a handler that was invoked in the turn raises an exception, the
\* invocation of LexHelper.handler does not raise and its response has the
\* dialog action type Close.
C1_HandlerExceptionGivesClose ==
    (Ended /\ \E i \in DOMAIN Invoked : modules[Invoked[i].handler].do = "raise")
        => /\ outcome[1].kind = "return"
           /\ response # None
           /\ response[1].sessionState.dialogAction # None
           /\ ResponseType = "Close"

\* C1 witness: the handler of the event's intent raised and the turn was
\* answered with the Close response of the error policy
C1_Witness ==
    /\ Answered
    /\ Invoked = <<[handler |-> HandlerFile(BookFlight), depth |-> 0]>>
    /\ modules[HandlerFile(BookFlight)].do = "raise"
    /\ ResponseType = "Close"
    /\ response[1].messages = <<PlainText("error_generic")>>

CallbackToAuthenticate ==
    /\ Ended
    /\ Len(Invoked) >= 1
    /\ Invoked[1] = [handler |-> HandlerFile(BookFlight), depth |-> 0]
    /\ modules[HandlerFile(BookFlight)] =
           Script("transition_to_callback", Authenticate, None, SignIn)
    /\ modules[HandlerFile(Authenticate)].do \in
           {"close", "transition_to_callback", "raise"}

\* the messages of the Authenticate handler's own response
AuthenticateMessages ==
    IF modules[HandlerFile(Authenticate)].do = "raise"
    THEN <<PlainText("error_generic")>>
    ELSE modules[HandlerFile(Authenticate)].messages

\* C3 as stated: after transition_to_callback("Authenticate", msgs) the
\* Orchestrator invokes the Authenticate handler next, and the final messages
\* are the Authenticate handler's own messages with nothing before them.
C3_CallbackMessagesAlone ==
    CallbackToAuthenticate
        => /\ Len(Invoked) >= 2
           /\ Invoked[2] = [handler |-> HandlerFile(Authenticate), depth |-> 0]
           /\ Answered
           /\ response[1].messages = AuthenticateMessages

\* C3 as amended: after transition_to_callback("Authenticate", msgs) the
\* Orchestrator invokes the Authenticate handler next, and the final messages
\* are msgs followed by the Authenticate handler's own messages.
C3_CallbackMessagesFollowCaller ==
    CallbackToAuthenticate
        => /\ Len(Invoked) >= 2
           /\ Invoked[2] = [handler |-> HandlerFile(Authenticate), depth |-> 0]
           /\ Answered
           /\ response[1].messages = SignIn \o AuthenticateMessages

\* C3 witness: the callback to Authenticate ran and closed, and the response
\* carries the caller's message and then Authenticate's
C3_Witness ==
    /\ CallbackToAuthenticate
    /\ modules[HandlerFile(Authenticate)].do = "close"
    /\ Len(Invoked) = 2
    /\ Answered
    /\ response[1].messages = <<PlainText("please sign in"), PlainText("signed in")>>

\* the session attributes the next turn starts from: those the platform
\* sends, or the Config's own when it sends none
StartAttrs == IF DOMAIN session = {} THEN config.session_attributes ELSE session

\* the last turn had the interpretations BookFlight:0.42 and
\* ChangeFlight:0.38 and was answered with the clarification, and the
\* platform holds the session attributes of that answer
AmbiguousTurnAnswered ==
    /\ Answered
    /\ config.enable_disambiguation
    /\ event[1].interpretations = AmbiguousInterpretations
    /\ ResponseType = "ElicitIntent"
    /\ ResponseAttrs.disambiguation_active
    /\ session = ResponseAttrs

AwaitingSelection ==
    /\ Ended
    /\ config.enable_disambiguation
    /\ "disambiguation_active" \in DOMAIN EventAttrs
    /\ EventAttrs.disambiguation_active
    /\ EventAttrs.disambiguation_candidates # None
    /\ EventAttrs.disambiguation_candidates[1] # <<>>

----------------------------------------------------------------------------
(* Claims on the disambiguation engine, checked under SpecEngine.          *)

EngineDone(op) ==
    /\ engine_call # None
    /\ engine_result # None
    /\ engine_call[1].op = op

ScoreValuesOf(call) == [i \in 1..Len(call.scores) |-> call.scores[i].score]

\* C11: should_disambiguate is false when there are fewer than two scores
\* (none, or one); otherwise it is true exactly when the highest score is
\* below 0.6 or the two highest scores differ by at most 0.15.  So
\* {0.9, 0.05} gives false, {0.4, 0.35} true and {0.8, 0.7} true.
C11_ShouldDisambiguateRule ==
    EngineDone("should_disambiguate") =>
        LET values == ScoreValuesOf(engine_call[1])
            n      == Len(values)
            topAt  == CHOOSE i \in 1..n : \A j \in 1..n : values[j] <= values[i]
            others == {values[j] : j \in (1..n) \ {topAt}}
            second == CHOOSE v \in others : \A w \in others : w <= v
        IN  /\ n < 2 => engine_result[1] = FALSE
            /\ n >= 2 => engine_result[1] =
                             (values[topAt] < 60 \/ values[topAt] - second <= 15)
            /\ values = <<90, 5>> => engine_result[1] = FALSE
            /\ values = <<40, 35>> => engine_result[1] = TRUE
            /\ values = <<80, 70>> => engine_result[1] = TRUE

\* a confident top score with a close second, given out of order
C11_Witness ==
    /\ EngineDone("should_disambiguate")
    /\ ScoreValuesOf(engine_call[1]) = <<35, 80, 70>>
    /\ engine_result[1] = TRUE

\* the selection rules of the claim, each as the set of positions it selects
SelectedInput == engine_call[1].input
SelectedAmong == engine_call[1].candidates
Least(S) == CHOOSE i \in S : \A j \in S : i <= j
SameIgnoringCase(a, b) == str_lower(a) = str_lower(b)
PartIgnoringCase(part, whole) ==
    \E from \in 1..Len(whole) : \E to \in from..Len(whole) :
        SameIgnoringCase(SubSeq(whole, from, to), part)
ByExactName ==
    {i \in DOMAIN SelectedAmong :
        \/ SameIgnoringCase(SelectedInput, SelectedAmong[i].intent_name)
        \/ SameIgnoringCase(SelectedInput, SelectedAmong[i].display_name)}
ByPartOfDisplayName ==
    {i \in DOMAIN SelectedAmong :
        PartIgnoringCase(SelectedInput, SelectedAmong[i].display_name)}
ByNumber ==
    {i \in DOMAIN SelectedAmong : i <= 9 /\ SelectedInput = <<Digits[i]>>}
ByLetter ==
    {i \in DOMAIN SelectedAmong :
        i <= 26 /\ SelectedInput \in {<<LowerChars[i]>>, <<UpperChars[i]>>}}

\* C12 as stated: the input is resolved by the first rule that selects a
\* candidate, in the fixed priority (1) exact name or display name, (2) part
\* of a display name, (3) number, (4) letter; otherwise none is selected.
C12_FixedPriority ==
    EngineDone("resolve_user_selection") =>
        engine_result[1] =
            IF ByExactName # {} THEN Least(ByExactName)
            ELSE IF ByPartOfDisplayName # {} THEN Least(ByPartOfDisplayName)
            ELSE IF ByNumber # {} THEN Least(ByNumber)
            ELSE IF ByLetter # {} THEN Least(ByLetter)
            ELSE 0

\* C12 amended: as stated, except that an input of one letter that names a
\* candidate's position (a the first, b the second, ...) and is not an exact
\* name is resolved by the letter rule, not as part of a display name.
C12_PriorityWithPositionLetter ==
    EngineDone("resolve_user_selection") =>
        engine_result[1] =
            IF ByExactName # {} THEN Least(ByExactName)
            ELSE IF ByLetter # {} THEN Least(ByLetter)
            ELSE IF ByPartOfDisplayName # {} THEN Least(ByPartOfDisplayName)
            ELSE IF ByNumber # {} THEN Least(ByNumber)
            ELSE 0

\* a letter that is also part of the first display name selects by position
C12_Witness ==
    /\ EngineDone("resolve_user_selection")
    /\ SelectedInput = <<"c">>
    /\ SelectedAmong = <<BookAFlight, ChangeAFlight, CancelAFlight>>
    /\ engine_result[1] = 3

\* C13: among the candidates BookFlight ("Book a Flight") and ChangeFlight
\* ("Change Flight"), "1" selects BookFlight, "b" selects ChangeFlight,
\* "book" selects BookFlight and "xyz" selects none.
C13_SelectionExamples ==
    (/\ EngineDone("resolve_user_selection")
     /\ SelectedAmong = <<BookAFlight, ChangeAFlight>>) =>
        LET selected == IF engine_result[1] = 0 THEN None
                        ELSE Some(SelectedAmong[engine_result[1]].intent_name)
        IN  /\ SelectedInput = <<"1">> => selected = Some(BookFlight)
            /\ SelectedInput = <<"b">> => selected = Some(ChangeFlight)
            /\ SelectedInput = <<"b","o","o","k">> => selected = Some(BookFlight)
            /\ SelectedInput = <<"x","y","z">> => selected = None

C13_Witness ==
    /\ EngineDone("resolve_user_selection")
    /\ SelectedAmong = <<BookAFlight, ChangeAFlight>>
    /\ SelectedInput = <<"b">>
    /\ engine_result[1] = 2

AnsweredRequest == engine_call[1].request
StoredWith(request) ==
    IF request.sessionState.sessionAttributes.disambiguation_candidates = None THEN <<>>
    ELSE loads_candidates(request.sessionState.sessionAttributes.disambiguation_candidates[1])

\* C14: when the answer selects a stored candidate, the request is altered
\* in place: intent.slots is emptied, intent.name is the selected intent,
\* intent.state is InProgress and the disambiguation state is cleared; no
\* response is returned, so that regular dispatch follows.
C14_SelectionRewritesRequest ==
    (/\ EngineDone("process_disambiguation_response")
     /\ AnsweredRequest.sessionState.sessionAttributes.disambiguation_active
     /\ resolve_user_selection(AnsweredRequest.inputTranscript,
                               StoredWith(AnsweredRequest)) # 0) =>
        LET selected == resolve_user_selection(AnsweredRequest.inputTranscript,
                                               StoredWith(AnsweredRequest))
            after    == engine_result[1].request.sessionState
        IN  /\ engine_result[1].kind = "return"
            /\ engine_result[1].response = None
            /\ after.intent.slots = EmptyDict
            /\ after.intent.name = StoredWith(AnsweredRequest)[selected].intent_name
            /\ after.intent.state = "InProgress"
            /\ after.sessionAttributes.disambiguation_active = FALSE
            /\ after.sessionAttributes.disambiguation_candidates = None
            /\ (AnsweredRequest.inputTranscript = <<"2">>
                    => after.intent.name = StoredWith(AnsweredRequest)[2].intent_name)

\* the answer "2" to BookFlight / ChangeFlight, on a request with a filled slot
C14_Witness ==
    /\ EngineDone("process_disambiguation_response")
    /\ AnsweredRequest.sessionState.sessionAttributes.disambiguation_active
    /\ AnsweredRequest.inputTranscript = <<"2">>
    /\ AnsweredRequest.sessionState.intent.slots = FilledSlots
    /\ AnsweredRequest.sessionState.intent.state = "ReadyForFulfillment"
    /\ StoredWith(AnsweredRequest) = <<BookAFlight, ChangeAFlight>>
    /\ engine_result[1].response = None
    /\ engine_result[1].request.sessionState.intent.name = ChangeFlight
    /\ engine_result[1].request.sessionState.intent.slots = EmptyDict

\* C15: handle_disambiguation stores disambiguation_active = true and the
\* candidates, cut to at most max_candidates (3), in the session attributes
\* of its ElicitIntent response; the stored list read back has the same
\* intent names in the same order as the candidates kept.
C15_StoresTruncatedCandidates ==
    EngineDone("handle_disambiguation") =>
        LET offered == engine_call[1].candidates
            state   == engine_result[1].response[1].sessionState
            stored  == state.sessionAttributes.disambiguation_candidates
            back    == loads_candidates(stored[1])
        IN  /\ engine_result[1].kind = "return"
            /\ state.dialogAction[1].type = "ElicitIntent"
            /\ state.sessionAttributes.disambiguation_active = TRUE
            /\ stored # None
            /\ Len(back) <= 3
            /\ Len(back) = IF Len(offered) < 3 THEN Len(offered) ELSE 3
            /\ \A i \in 1..Len(back) : back[i].intent_name = offered[i].intent_name

\* four candidates offered, three stored
C15_Witness ==
    /\ EngineDone("handle_disambiguation")
    /\ Len(engine_call[1].candidates) = 4
    /\ Len(loads_candidates(engine_result[1].response[1].sessionState
                                .sessionAttributes.disambiguation_candidates[1])) = 3

----------------------------------------------------------------------------
(* Claims on the hand-over of a conversation, checked under SpecTransfer.  *)

Transferred(op) == last_call # None /\ last_call[1].op = op
TransferArgs    == last_call[1].args
Before          == last_call[1].pre
After           == lex_request[1]
\* the handler module of an intent of the bot, as the bot installed it
Installed(n)    == module_path(n, config.package_name)
Dispatched(n)   == <<[handler |-> Installed(n), depth |-> 1]>>

\* C16: transition_to_intent dispatches at once to the handler of the target
\* intent and returns that handler's response with the caller's messages
\* before the handler's own, in order; the target handler is given a request
\* whose intent.slots is empty and whose intent.name is the target.
C16_TransitionReturnsTargetResponse ==
    (/\ Transferred("transition_to_intent")
     /\ Installed(TransferArgs.target) \in DOMAIN modules
     /\ modules[Installed(TransferArgs.target)].do \in {"close", "elicit_intent", "delegate"}) =>
        /\ last_call[1].kind = "return"
        /\ After.invoked = Dispatched(TransferArgs.target)
        /\ response # None
        /\ response[1].messages =
               TransferArgs.messages \o modules[Installed(TransferArgs.target)].messages
        /\ response[1].sessionState.intent.name = TransferArgs.target
        /\ response[1].sessionState.intent.slots = EmptyDict

CallbackEvent   == Before.sessionState.sessionAttributes.callback_event
CallbackHandler == IF Before.sessionState.sessionAttributes.callback_handler = None
                   THEN <<>>
                   ELSE Before.sessionState.sessionAttributes.callback_handler[1]

\* C17: callback_original_intent_handler dispatches to the handler of the
\* fixed fallback name when callback_event and callback_handler are both
\* empty; when callback_event is present it dispatches to the handler of
\* callback_handler with the stashed request, carrying the current session
\* attributes without the two callback fields; when only callback_handler is
\* present it dispatches to that handler with the slots cleared.
C17_CallbackDispatch ==
    Transferred("callback_original_intent_handler") =>
        /\ (CallbackEvent = None /\ CallbackHandler = <<>>) =>
               /\ After.invoked = Dispatched(FallbackHandlerName)
               /\ After.sessionState.intent.name = Before.sessionState.intent.name
               /\ After.sessionState.intent.slots = Before.sessionState.intent.slots
        /\ (CallbackEvent # None /\ CallbackHandler # <<>>) =>
               /\ After.invoked = Dispatched(CallbackHandler)
               /\ After.sessionState.intent.name = StashedEvent.sessionState.intent.name
               /\ After.sessionState.intent.slots = StashedEvent.sessionState.intent.slots
               /\ After.inputTranscript = StashedEvent.inputTranscript
               /\ After.sessionState.sessionAttributes.error_count =
                      Before.sessionState.sessionAttributes.error_count
               /\ "callback_event" \notin DOMAIN After.sessionState.sessionAttributes
               /\ "callback_handler" \notin DOMAIN After.sessionState.sessionAttributes
        /\ (CallbackEvent = None /\ CallbackHandler # <<>>) =>
               /\ After.invoked = Dispatched(CallbackHandler)
               /\ After.sessionState.intent.name = CallbackHandler
               /\ After.sessionState.intent.slots = EmptyDict

\* C18: transition_to_callback invokes no handler: it records the target
\* under requestAttributes["callback"] and returns a response that carries
\* the caller's messages.
C18_CallbackOnlyRecorded ==
    Transferred("transition_to_callback") =>
        /\ last_call[1].kind = "return"
        /\ After.invoked = Before.invoked
        /\ After.missed = Before.missed
        /\ After.requestAttributes # None
        /\ After.requestAttributes[1]["callback"] = TransferArgs.target
        /\ response[1].requestAttributes["callback"] = TransferArgs.target
        /\ response[1].messages = TransferArgs.messages
        /\ response[1].sessionState.dialogAction = None

\* a callback to an intent that has a handler module, recorded and not run
C18_Witness ==
    /\ Transferred("transition_to_callback")
    /\ TransferArgs.target = Authenticate
    /\ Installed(Authenticate) \in DOMAIN modules
    /\ TransferArgs.messages = <<PlainText("please sign in")>>
    /\ After.invoked = <<>>
    /\ After.requestAttributes[1]["callback"] = Authenticate

----------------------------------------------------------------------------
(* Claims on the parse of the event, checked under SpecParse.              *)

Did(op) == last_call # None /\ last_call[1].op = op

\* C19: the session attributes of the parsed request are the caller's
\* defaults overlaid with the event's: a key of the event's
\* sessionAttributes has the event's value, a key absent from the event has
\* the value of the attributes the caller supplied, and with no session
\* attributes in the event the result is the caller's instance.
C19_CallerDefaultsOverlaid ==
    (Did("parse_lex_request") /\ lex_request # None) =>
        LET wire   == event[1].sessionState.sessionAttributes
            caller == config.session_attributes
            parsed == lex_request[1].sessionState.sessionAttributes
        IN  /\ \A k \in DOMAIN parsed :
                   parsed[k] = IF k \in DOMAIN wire THEN wire[k] ELSE caller[k]
            /\ DOMAIN wire = {} => parsed = caller

\* C20: when the event cannot be parsed, LexHelper.handler raises nothing:
\* it returns a Close response for the intent FallbackIntent with one
\* PlainText message.
C20_UnparsableEventGivesClose ==
    (Did("handler") /\ ~well_formed(event[1])) =>
        /\ outcome[1].kind = "return"
        /\ response # None
        /\ response[1].sessionState.intent.name = FallbackIntent
        /\ response[1].sessionState.dialogAction[1].type = "Close"
        /\ Len(response[1].messages) = 1
        /\ response[1].messages[1].contentType = "PlainText"

----------------------------------------------------------------------------
(* Claims on the error policy of LexHelper.handler, checked under Spec.    *)

\* C21: LexHelper.handler, called with an event whose intent name has no
\* handler module, raises nothing and returns a response whose dialog
\* action type is Close.
C21_UnknownIntentGivesClose ==
    (Ended /\ HandlerFile(event[1].sessionState.intent.name) \notin DOMAIN modules)
        => /\ Answered
           /\ ResponseType = "Close"

\* the response of handle_exceptions: Close, one PlainText message, on the
\* intent name and session attributes of the request
ErrorResponseShape ==
    /\ engine_result[1].kind = "return"
    /\ engine_result[1].response[1].sessionState.dialogAction[1].type = "Close"
    /\ Len(engine_result[1].response[1].messages) = 1
    /\ engine_result[1].response[1].messages[1].contentType = "PlainText"
    /\ engine_result[1].response[1].sessionState.intent.name =
           engine_call[1].request.sessionState.intent.name
    /\ engine_result[1].response[1].sessionState.sessionAttributes =
           engine_call[1].request.sessionState.sessionAttributes

ErrorShown == engine_result[1].response[1].messages[1].content

\* C22 as stated: handle_exceptions gives a Close response with one PlainText
\* message on the request's intent name and session attributes; a
\* ValidationError shows its own message when it has one, else the generic
\* invalid-input message; a SessionError shows the fixed start-over message;
\* any other error shows the generic fallback message.
C22_OtherErrorsGeneric ==
    EngineDone("handle_exceptions") =>
        /\ ErrorResponseShape
        /\ ErrorShown =
             CASE engine_call[1].error.type = "ValidationError" ->
                     IF engine_call[1].error.message # ""
                     THEN engine_call[1].error.message ELSE "error_invalid_input"
               [] engine_call[1].error.type = "SessionError" -> "error_session"
               [] OTHER -> "error_generic"

\* C22 amended: as stated, except that an IntentNotFoundError shows the
\* fixed message of an unknown request and a ValueError the fixed message of
\* an invalid value; every other error shows the generic fallback message.
C22_ErrorPolicy ==
    EngineDone("handle_exceptions") =>
        /\ ErrorResponseShape
        /\ ErrorShown =
             CASE engine_call[1].error.type = "ValidationError" ->
                     IF engine_call[1].error.message # ""
                     THEN engine_call[1].error.message ELSE "error_invalid_input"
               [] engine_call[1].error.type = "SessionError" -> "error_session"
               [] engine_call[1].error.type = "IntentNotFoundError" ->
                     "error_intent_not_found"
               [] engine_call[1].error.type = "ValueError" -> "error_invalid_value"
               [] OTHER -> "error_generic"

\* a SessionError raised with a detail, answered with the fixed message
C22_Witness ==
    /\ EngineDone("handle_exceptions")
    /\ engine_call[1].error = Error("SessionError", "Session issue")
    /\ ErrorShown = "error_session"
    /\ ErrorResponseShape

----------------------------------------------------------------------------
(* Claim about reprompt_slot, under SpecDialog                             *)

\* C23: reprompt_slot returns the ElicitSlot response of elicit_slot, with no
\* messages, when a previous slot is stored, and a Delegate response when
\* none is; so reprompt_slot after an elicit_slot that returned yields an
\* ElicitSlot response.
C23_RepromptElicitsStoredSlot ==
    CallMade("reprompt_slot") =>
        LET stored == last_call[1].pre.sessionState.sessionAttributes.previous_slot_to_elicit
        IN  /\ Returned
            /\ response # None
            /\ response[1].sessionState.dialogAction # None
            /\ response[1].sessionState.dialogAction[1].type =
                  IF stored = <<>> THEN "Delegate" ELSE "ElicitSlot"
            /\ stored # <<>> => response[1].messages = <<>>

----------------------------------------------------------------------------
(* Claim about any_unknown_slot_choices, under SpecSlots                   *)

\* C24: any_unknown_slot_choices returns true only when
\* previous_dialog_action_type is "ElicitSlot" and get_slot on the
\* previously elicited slot does not yield a string; whenever it returns
\* false, error_count is 0 afterwards.
C24_UnknownOnlyAfterElicitSlot ==
    CallMade("any_unknown_slot_choices") =>
        LET pre    == last_call[1].pre
            attrs  == pre.sessionState.sessionAttributes
            choice == get_slot(attrs.previous_slot_to_elicit, pre.sessionState.intent, "")
        IN  /\ engine_result = Some(TRUE) =>
                 /\ attrs.previous_dialog_action_type = "ElicitSlot"
                 /\ ~is_str(choice)
            /\ engine_result = Some(FALSE) =>
                 lex_request[1].sessionState.sessionAttributes.error_count = 0

\* C24 witness: after an ElicitSlot turn with one failed attempt, OriginCity
\* was set to the number 7 and the slot choice was found unknown, the error
\* count left at 1.
C24_Witness ==
    /\ CallMade("any_unknown_slot_choices")
    /\ engine_result = Some(TRUE)
    /\ get_slot(OriginCity, lex_request[1].sessionState.intent, "") = PyNum(<<"7">>)
    /\ lex_request[1].sessionState.sessionAttributes.error_count = 1

----------------------------------------------------------------------------
(* Claim about the stamp of the primitives, under SpecDialog               *)

\* C25: close, delegate, elicit_intent and elicit_slot each leave their own
\* name in previous_dialog_action_type, so after any sequence of them the
\* attribute equals the dialog action type of the response the last one
\* returned; elicit_intent also empties previous_slot_to_elicit.
C25_PrimitiveStampsItsName ==
    (last_call # None
        /\ last_call[1].op \in {"close", "delegate", "elicit_intent", "elicit_slot"}) =>
        LET attrs == lex_request[1].sessionState.sessionAttributes
        IN  /\ attrs.previous_dialog_action_type = ActionTypeOf(last_call[1].op)
            /\ Returned =>
                 /\ response[1].sessionState.dialogAction[1].type =
                        attrs.previous_dialog_action_type
                 /\ response[1].sessionState.sessionAttributes.previous_dialog_action_type =
                        attrs.previous_dialog_action_type
            /\ (Returned /\ last_call[1].op = "elicit_intent") =>
                 /\ attrs.previous_slot_to_elicit = <<>>
                 /\ response[1].sessionState.sessionAttributes.previous_slot_to_elicit = <<>>

\* C25 witness: elicit_intent answered as the second primitive of a turn,
\* after an elicit_slot had stored its key.
C25_Witness ==
    /\ CallMade("elicit_intent") /\ Returned
    /\ last_call[1].n = 2
    /\ last_call[1].pre.sessionState.sessionAttributes.previous_dialog_action_type = "ElicitSlot"
    /\ last_call[1].pre.sessionState.sessionAttributes.previous_slot_to_elicit = BookFlightSlotKey
    /\ lex_request[1].sessionState.sessionAttributes.previous_dialog_action_type = "ElicitIntent"

----------------------------------------------------------------------------
(* Claim about analyze_request, under SpecEngine                           *)

ConfidenceOf(interpretation) ==
    IF interpretation.nluConfidence = None THEN 0 ELSE interpretation.nluConfidence[1]

\* C26: the candidates of analyze_request are in descending order of score,
\* at most max_candidates (3) of them, the best scored of the
\* interpretations, each with the slot keys of its interpretation as
\* required_slots; when should_disambiguate is false there is no candidate;
\* confidence_scores holds the score of every interpretation, 0 for a
\* missing nluConfidence.
C26_AnalyzeRequestCandidates ==
    EngineDone("analyze_request") =>
        LET interpretations == engine_call[1].request.interpretations
            result          == engine_result[1]
            candidates      == result.candidates
            names           == {candidates[i].intent_name : i \in DOMAIN candidates}
        IN  /\ Len(candidates) <= 3
            /\ \A i, j \in DOMAIN candidates :
                  i < j => candidates[i].confidence_score >= candidates[j].confidence_score
            /\ result.should_disambiguate =>
                  Len(candidates) = IF Len(interpretations) < 3 THEN Len(interpretations) ELSE 3
            /\ ~result.should_disambiguate => candidates = <<>>
            /\ \A i \in DOMAIN candidates :
                  \E k \in DOMAIN interpretations :
                      /\ interpretations[k].intent.name = candidates[i].intent_name
                      /\ ConfidenceOf(interpretations[k]) = candidates[i].confidence_score
                      /\ candidates[i].required_slots = DOMAIN interpretations[k].intent.slots
            /\ \A i, j \in DOMAIN candidates :
                  i # j => candidates[i].intent_name # candidates[j].intent_name
            /\ \A k \in DOMAIN interpretations :
                  interpretations[k].intent.name \notin names =>
                      \A i \in DOMAIN candidates :
                          ConfidenceOf(interpretations[k]) <= candidates[i].confidence_score
            /\ Len(result.confidence_scores) = Len(interpretations)
            /\ \A k \in DOMAIN interpretations :
                  /\ result.confidence_scores[k].name = interpretations[k].intent.name
                  /\ result.confidence_scores[k].score = ConfidenceOf(interpretations[k])

\* C26 witness: four interpretations, the first without a confidence and the
\* third with slots, gave three candidates led by the third.
C26_Witness ==
    /\ EngineDone("analyze_request")
    /\ Len(engine_call[1].request.interpretations) = 4
    /\ engine_call[1].request.interpretations[1].nluConfidence = None
    /\ engine_result[1].should_disambiguate
    /\ Len(engine_result[1].candidates) = 3
    /\ engine_result[1].candidates[1].intent_name = ScoredIntents[3]
    /\ engine_result[1].candidates[1].required_slots = {OriginCity, Day}
    /\ engine_result[1].confidence_scores[1].score = 0

----------------------------------------------------------------------------
(* Claims about the dispatches made inside a turn, under Spec              *)

\* C27: when a handler calls transition_to_intent for a name that has no
\* handler module, the IntentNotFoundError leaves the enclosing dispatch and
\* LexHelper.handler: the invocation raises it and gives no response.
C27_NestedIntentNotFoundPropagates ==
    (Ended /\ \E i \in DOMAIN Missed : Missed[i].depth > 0)
        => /\ outcome[1].kind = "raise"
           /\ outcome[1].exc = "IntentNotFoundError"

----------------------------------------------------------------------------
(* Claim about the namespace of the dispatches, under SpecTransfer         *)

ConfiguredRoot ==
    IF config.package_name = None THEN DefaultPackage ELSE config.package_name[1]

UnderConfiguredRoot(file) ==
    /\ Len(file) >= Len(ConfiguredRoot) + Len(DotIntentsDot)
    /\ SubSeq(file, 1, Len(ConfiguredRoot) + Len(DotIntentsDot)) =
           ConfiguredRoot \o DotIntentsDot

\* C28: the handler module that transition_to_intent or
\* callback_original_intent_handler looks up, found or not, is under the
\* package_name of the Config, whatever package_name is configured.
C28_OneNamespaceRoot ==
    (Transferred("transition_to_intent")
        \/ Transferred("callback_original_intent_handler")) =>
        /\ \A i \in DOMAIN After.invoked : UnderConfiguredRoot(After.invoked[i].handler)
        /\ \A i \in DOMAIN After.missed : UnderConfiguredRoot(After.missed[i].handler)

----------------------------------------------------------------------------
(* Claim about successive invocations of one LexHelper, under Spec         *)

\* C29: whatever the earlier invocations of the LexHelper wrote, an event
\* that carries no session attributes is parsed into the session attributes
\* the caller configured.
C29_InvocationsIndependent ==
    DOMAIN session = {} =>
        \A u \in Utterances :
            parse_lex_request(TurnEvent(u, session), config.session_attributes)
                .sessionState.sessionAttributes = SessionAttributesDefaults

----------------------------------------------------------------------------
(* Claim about the contexts of the response of close, under SpecTransfer   *)

Expired(context) ==
    context.timeToLive # None /\ context.timeToLive[1].turnsToLive = Some(0)

\* C30: the response of close has no context whose turnsToLive is 0 among
\* its activeContexts, whatever contexts the request held when the handler
\* called close.
C30_CloseResponseHasNoExpiredContext ==
    (/\ last_call # None
     /\ last_call[1].kind = "return"
     /\ After.invoked # <<>>
     /\ modules[After.invoked[Len(After.invoked)].handler].do = "close") =>
        /\ response # None
        /\ response[1].sessionState.dialogAction[1].type = "Close"
        /\ \A i \in DOMAIN response[1].sessionState.activeContexts :
              ~Expired(response[1].sessionState.activeContexts[i])

----------------------------------------------------------------------------
(* Claims about the order of the steps of a turn, under Spec               *)

\* the request of the turn being taken, as parsed from its event
ParsedNow == parse_lex_request(event'[1], config.session_attributes)

\* C31: in a turn whose request has an unknown slot choice, the response of
\* LexHelper.handler is the Delegate response of
\* handle_any_unknown_slot_choice: no handler is looked up or invoked and
\* the disambiguation state is left as it was.
C31_UnknownChoiceDelegates ==
    [][(turn' = turn + 1 /\ any_unknown_slot_choices(ParsedNow).unknown) =>
          /\ outcome'[1].kind = "return"
          /\ response'[1].sessionState.dialogAction[1].type = "Delegate"
          /\ response'[1].messages = <<>>
          /\ lex_request'[1].invoked = <<>>
          /\ lex_request'[1].missed = <<>>
          /\ response'[1].sessionState.sessionAttributes.disambiguation_active =
                 ParsedNow.sessionState.sessionAttributes.disambiguation_active
          /\ response'[1].sessionState.sessionAttributes.disambiguation_candidates =
                 ParsedNow.sessionState.sessionAttributes.disambiguation_candidates]_vars

\* C31 witness: the turn after an elicit_slot brought the number 7 for the
\* elicited slot and was answered with Delegate, no handler invoked.
C31_Witness ==
    /\ Answered
    /\ turn = 2
    /\ EventAttrs # EmptyDict
    /\ EventAttrs.previous_dialog_action_type = "ElicitSlot"
    /\ event[1].sessionState.intent.slots = UnknownChoiceSlots
    /\ ResponseType = "Delegate"
    /\ Invoked = <<>>

\* the candidate the input of the turn selects among those the event carries
\* (0 for none)
Selected ==
    resolve_user_selection(event[1].inputTranscript,
                           loads_candidates(EventAttrs.disambiguation_candidates[1]))

SelectedIntent == loads_candidates(EventAttrs.disambiguation_candidates[1])[Selected].intent_name

SelectionPending ==
    /\ Answered
    /\ config.enable_disambiguation
    /\ ResponseAttrs.disambiguation_active
    /\ session = ResponseAttrs

\* what the input of the turn being taken selects among the candidates the
\* last answer stored (0 for none)
SelectedNow ==
    resolve_user_selection(event'[1].inputTranscript,
                           loads_candidates(session.disambiguation_candidates[1]))

----------------------------------------------------------------------------
(* Claim about the life of the disambiguation state, under SpecEngine      *)

\* C34: for a request that comes with disambiguation_active = true,
\* disambiguation_active is false when process_disambiguation_response
\* returns, whether the input selected a candidate, selected none, or no
\* candidates were stored.
C34_StateClearedInEveryBranch ==
    (/\ EngineDone("process_disambiguation_response")
     /\ AnsweredRequest.sessionState.sessionAttributes.disambiguation_active) =>
        /\ engine_result[1].request.sessionState.sessionAttributes.disambiguation_active
               = FALSE
        /\ engine_result[1].response # None =>
               engine_result[1].response[1].sessionState.sessionAttributes
                   .disambiguation_active = FALSE

----------------------------------------------------------------------------
(* Claim about the contexts of a turn, under SpecParse                     *)

\* C35: every context of the inbound event whose turnsToLive is not 0 is
\* among the activeContexts of the response LexHelper.handler returns.
C35_LiveContextsKept ==
    (Did("handler") /\ outcome[1].kind = "return" /\ response # None) =>
        \A i \in DOMAIN event[1].sessionState.activeContexts :
            LET context == event[1].sessionState.activeContexts[i]
            IN  ~Expired(context) =>
                    \E j \in DOMAIN response[1].sessionState.activeContexts :
                        response[1].sessionState.activeContexts[j] = context

----------------------------------------------------------------------------
(* Claim about a failed elicit_slot, under SpecDialog                      *)

\* C36: when elicit_slot fails because slot_name contains a '.', intent.state
\* and the session attributes previous_slot_to_elicit,
\* previous_dialog_action_type, previous_intent, previous_message and
\* options_provided are as they were before the call.
C36_FailedElicitSlotHasNoEffect ==
    (CallMade("elicit_slot") /\ last_call[1].kind = "raise") =>
        LET before == last_call[1].pre.sessionState
            after  == lex_request[1].sessionState
        IN  /\ after.intent.state = before.intent.state
            /\ \A k \in {"previous_slot_to_elicit", "previous_dialog_action_type",
                          "previous_intent", "previous_message", "options_provided"} :
                  after.sessionAttributes[k] = before.sessionAttributes[k]

----------------------------------------------------------------------------
(* Claim about the use of a stored callback, under SpecTransfer            *)

\* a session attribute that is absent, None or the empty string
EmptyAttr(attrs, k) ==
    \/ k \notin DOMAIN attrs
    \/ attrs[k] = None
    \/ attrs[k] = Some(<<>>)

\* C37: after callback_original_intent_handler has dispatched to the handler
\* of callback_handler, with or without a stashed callback_event, both
\* callback_handler and callback_event are empty in the session attributes.
C37_CallbackConsumedOnce ==
    (/\ Transferred("callback_original_intent_handler")
     /\ CallbackHandler # <<>>
     /\ After.invoked # <<>>) =>
        /\ EmptyAttr(After.sessionState.sessionAttributes, "callback_handler")
        /\ EmptyAttr(After.sessionState.sessionAttributes, "callback_event")

----------------------------------------------------------------------------
(* Claims about callbacks and transitions within a turn, under Spec        *)

\* C38: the response LexHelper.handler gives to the channel formatter has no
\* "callback" key in its requestAttributes, whatever the handlers returned.
C38_NoCallbackKeyInResponse ==
    Answered => "callback" \notin DOMAIN response[1].requestAttributes

\* the BookFlight handler hands over to Authenticate and the Authenticate
\* handler hands over to BookFlight, and the turn entered the cycle
TransitionCycle ==
    /\ Ended
    /\ modules[HandlerFile(BookFlight)].do = "transition_to_intent"
    /\ modules[HandlerFile(BookFlight)].target = Authenticate
    /\ modules[HandlerFile(Authenticate)].do = "transition_to_intent"
    /\ modules[HandlerFile(Authenticate)].target = BookFlight
    /\ \E i \in DOMAIN Invoked : Invoked[i].depth > 0

\* C39: a turn in which the handlers form a transition cycle ends with a
\* Close response, the chain of transitions being cut by the library after
\* a fixed number of hops: the nesting of the handlers never comes to the
\* limit of the interpreter's stack (RecursionLimit).
C39_TransitionCycleCut ==
    TransitionCycle =>
        /\ Answered
        /\ ResponseType = "Close"
        /\ \A i \in DOMAIN Invoked : Invoked[i].depth <= RecursionLimit

====
